---- MODULE Spec2Model ----
(***************************************************************************)
(* A model of tools/batools/project/_updater.py: the ProjectUpdater run    *)
(* (construct, enqueue, prepare, generate, checks, lock, apply line        *)
(* corrections, apply whole-file writes), its generated-file cache and     *)
(* dispatch, and the text conversions the apply passes rest on.            *)
(*                                                                         *)
(* A text is a sequence of one-character strings; a longer string in a     *)
(* text stands for that run of characters, none of them a line break.  A   *)
(* file on disk holds the characters written to it; reading it in text     *)
(* mode translates line endings (ReadText).  The platform is POSIX:        *)
(* os.linesep is "\n".                                                     *)
(***************************************************************************)
EXTENDS Integers, Sequences, FiniteSets, TLC

(***************************************************************************)
(* Text                                                                    *)
(***************************************************************************)
CR == "\r"
LF == "\n"

\* A form feed: one of the characters besides CR and LF at which
\* str.splitlines() ends a line (VT, FF, FS, GS, RS, NEL, LS, PS), and which
\* the text-mode read and write leave as they are.
FF == "\f"
LineBoundaries == {CR, LF, FF}

\* The value of a missing file, and Python's None: no text holds these marks.
Absent == <<"<absent>">>
None == <<"<None>">>

\* str.replace('\r\n', '\n'): every CR LF pair, left to right: a CR that
\* an LF follows goes.  The text is done by halves, positions lo..hi.
RECURSIVE ReplaceCRLFIn(_, _, _)
ReplaceCRLFIn(s, lo, hi) ==
    IF lo > hi THEN <<>>
    ELSE IF lo = hi
         THEN IF s[lo] = CR /\ lo < Len(s) /\ s[lo + 1] = LF THEN <<>>
              ELSE <<s[lo]>>
         ELSE ReplaceCRLFIn(s, lo, (lo + hi) \div 2)
                  \o ReplaceCRLFIn(s, (lo + hi) \div 2 + 1, hi)

ReplaceCRLF(s) == ReplaceCRLFIn(s, 1, Len(s))

\* open(path, 'r').read() with the default newline=None: universal newlines,
\* CR LF and a lone CR both arrive as LF: an LF after a CR goes, a CR is an
\* LF.
RECURSIVE ReadTextIn(_, _, _)
ReadTextIn(s, lo, hi) ==
    IF lo > hi THEN <<>>
    ELSE IF lo = hi
         THEN IF s[lo] = LF /\ lo > 1 /\ s[lo - 1] = CR THEN <<>>
              ELSE IF s[lo] = CR THEN <<LF>>
              ELSE <<s[lo]>>
         ELSE ReadTextIn(s, lo, (lo + hi) \div 2)
                  \o ReadTextIn(s, (lo + hi) \div 2 + 1, hi)

ReadText(s) == ReadTextIn(s, 1, Len(s))

\* open(path, 'w').write(s) with the default newline=None: "\n" becomes
\* os.linesep, which is "\n" here, so the characters land as given.
WriteText(s) == s

\* str.splitlines(): lines end at a line boundary, CR LF being one; no
\* empty last line.
\* The lines of s from position `from` on.
RECURSIVE SplitFrom(_, _)
SplitFrom(s, from) ==
    IF from > Len(s) THEN <<>>
    ELSE IF \A i \in from..Len(s) : s[i] \notin LineBoundaries
    THEN <<SubSeq(s, from, Len(s))>>
    ELSE LET end == CHOOSE i \in from..Len(s) :
                        /\ s[i] \in LineBoundaries
                        /\ \A j \in from..(i - 1) : s[j] \notin LineBoundaries
             next == IF s[end] = CR /\ end < Len(s) /\ s[end + 1] = LF
                     THEN end + 2 ELSE end + 1
         IN <<SubSeq(s, from, end - 1)>> \o SplitFrom(s, next)

splitlines(s) == SplitFrom(s, 1)

\* sep.join(lines)
RECURSIVE join(_, _)
join(sep, lines) ==
    IF Len(lines) = 0 THEN <<>>
    ELSE IF Len(lines) = 1 THEN lines[1]
         ELSE lines[1] \o sep \o join(sep, Tail(lines))

(***************************************************************************)
(* Python dicts: insertion-ordered, a sequence of [key, val] items.        *)
(***************************************************************************)
DictKeys(d) == {d[i].key : i \in 1..Len(d)}
DictHas(d, k) == \E i \in 1..Len(d) : d[i].key = k
DictGet(d, k) == d[CHOOSE i \in 1..Len(d) : d[i].key = k].val
\* d[k] = v: a present key keeps its place and takes the new value.
DictSet(d, k, v) ==
    IF DictHas(d, k)
    THEN [i \in 1..Len(d) |-> IF d[i].key = k THEN [key |-> k, val |-> v] ELSE d[i]]
    ELSE Append(d, [key |-> k, val |-> v])
\* d.get(k): None for a missing key.
\* d1 == d2 of two dicts: the same keys with the same values, in any order.
DictEq(d1, d2) ==
    /\ DictKeys(d1) = DictKeys(d2)
    /\ \A k \in DictKeys(d1) : DictGet(d1, k) = DictGet(d2, k)

DictGetOrNone(d, k) == IF DictHas(d, k) THEN DictGet(d, k) ELSE None

(***************************************************************************)
(* Paths.  One artifact path stands for each rule of the dispatch table    *)
(* that the run's claims reach; SRCFILE is a project source file that only *)
(* line corrections name, ERRFILE the check mode's diagnostic dump.        *)
(***************************************************************************)
XCODE == "ballisticakit-xcode/BallisticaKit.xcodeproj/project.pbxproj"
TOP == "Makefile"
ASSETS == "src/assets/Makefile"
APUB == "src/assets/.asset_manifest_public.json"
APRIV == "src/assets/.asset_manifest_private.json"
RES == "src/resources/Makefile"
META == "src/meta/Makefile"
APP == "src/assets/ba_data/python/babase/_app.py"
MPUB == "src/meta/.meta_manifest_public.json"
MPRIV == "src/meta/.meta_manifest_private.json"
UNKNOWN == "README.md"
CMAKE == "ballisticakit-cmake/CMakeLists.txt"
VCX == "ballisticakit-windows/Generic/BallisticaKitGeneric.vcxproj"
VCXF == "ballisticakit-windows/Generic/BallisticaKitGeneric.vcxproj.filters"
SRCFILE == "src/ballistica/b.cc"
ERRFILE == "build/project_check_error_file"

Paths ==
    {XCODE, TOP, ASSETS, APUB, APRIV, RES, META, APP, MPUB, MPRIV, UNKNOWN, CMAKE,
     VCX, VCXF}
Files == Paths \cup {SRCFILE, ERRFILE}

\* The paths a renderer that returns several files may return, in the order
\* of the dict it returns.
AssetsOutOrder == <<ASSETS, APUB, APRIV>>
MetaOutOrder == <<META, MPUB, MPRIV>>

VARIABLES
    pc,                 \* where the caller and run() stand
    error,              \* the exception that ended it, or NoError
    check, fix,         \* self.check, self.fix
    public,             \* self.public
    run_file_checks,    \* self.run_file_checks
    enqueued_updates,   \* self._enqueued_updates: dict path -> data or None
    line_corrections,   \* self._line_corrections: dict file -> list of _LineChange
    can_generate_files, \* self._can_generate_files
    generated_files,    \* self._generated_files: dict path -> text
    scanned,            \* self._source_files and _header_files are set
    source_files,       \* self._source_files: None, or a list of names
    header_files,       \* self._header_files: None, or a list of names
    start_updates,      \* run()'s snapshot of the enqueued updates
    next_update,        \* run()'s place in its loop over the enqueued updates
    disk,               \* the project tree: file -> characters, or Absent
    renders,            \* what the renderers outside this file return
    projectconfig,      \* the project's config file
    prior_runs,         \* runs of the tool that have completed on this tree
    walk,               \* the files of src/ballistica, as os.walk yields them
    disk0,              \* the tree as it was when run() began
    disk1,              \* the tree as it was when the whole-file pass began
    config_reads,       \* getprojectconfig / getlocalconfig calls so far
    calls,              \* path -> times a renderer was invoked for it
    assigns,            \* path -> times self._generated_files[path] was assigned
    returned,           \* path -> the texts generate_file(path) has returned
    chain,              \* the most generate_file calls that one call from
                        \* outside has made, and the deepest they stood
    writes,             \* the files written: a sequence of [by, path, data]
    unchanged_file_count, \* _apply_file_changes' count, as it ended
    locked,             \* run() has passed its lock point on this updater
    phases              \* the phases the current run() has entered, in order

ctlVars == <<pc, error>>
modeVars == <<check, fix, public, run_file_checks, config_reads>>
envVars == <<renders, projectconfig, prior_runs, walk>>
genVars == <<generated_files, calls, assigns, returned, chain>>
runVars == <<scanned, source_files, header_files, can_generate_files,
             start_updates, next_update, disk0, locked, phases>>
applyVars == <<disk, disk1, writes, unchanged_file_count>>

vars == <<ctlVars, modeVars, envVars, genVars, runVars, applyVars,
          enqueued_updates, line_corrections>>

NoError == [kind |-> "none", at |-> "none"]

(***************************************************************************)
(* generate_file and the dispatch table.  A call threads a record          *)
(*   [ok, err, cache, calls, assigns, returned, stack, nested, deep]       *)
(* through the nested calls; ok = FALSE is a raised exception, which every *)
(* caller on the stack lets through.  stack holds the paths whose          *)
(* generate_file has not returned, nested counts the calls made since the  *)
(* call from outside, deep is the longest the stack has been.              *)
(***************************************************************************)
Raise(st, kind) == [st EXCEPT !.ok = FALSE, !.err = kind]

\* self._generated_files[path] = data
AssignGenerated(st, path, data) ==
    [st EXCEPT !.cache = DictSet(st.cache, path, data),
               !.assigns[path] = @ + 1]

\* for out_path, out_contents in outfiles.items():
\*     self._generated_files[out_path] = out_contents
RECURSIVE AssignAll(_, _)
AssignAll(st, outfiles) ==
    IF Len(outfiles) = 0 THEN st
    ELSE AssignAll(AssignGenerated(st, outfiles[1].key, outfiles[1].val),
                   Tail(outfiles))

\* The dict a several-file renderer returns: the paths of `order` that the
\* renderer emits, each with the text it renders for it.
OutFiles(order, emitted) ==
    LET keep == SelectSeq(order, LAMBDA p : p \in emitted)
    IN [i \in 1..Len(keep) |-> [key |-> keep[i], val |-> renders.out[keep[i]]]]

(***************************************************************************)
(* Names of files are sequences of characters, as texts are; a longer      *)
(* string stands for a run of characters that no test looks into.          *)
(***************************************************************************)
\* s.endswith(suffix)
EndsWith(s, suffix) ==
    /\ Len(s) >= Len(suffix)
    /\ SubSeq(s, Len(s) - Len(suffix) + 1, Len(s)) = suffix

\* sub in s
Contains(s, sub) ==
    \E i \in 1..(Len(s) - Len(sub) + 1) : SubSeq(s, i, i + Len(sub) - 1) = sub

\* The characters of the names, in the order of their code points.
CodeOrder ==
    <<".", "/", "\\", "a", "b", "c", "d", "e", "f", "g", "h", "i", "j", "k", "l", "m",
      "n", "o", "p", "q", "r", "s", "t", "u", "v", "w", "x", "y", "z">>
Ord(c) == CHOOSE i \in 1..Len(CodeOrder) : CodeOrder[i] = c

\* s < t, as Python compares strings.
Less(s, t) ==
    \E k \in 1..Len(t) :
        /\ \A j \in 1..(k - 1) : j <= Len(s) /\ s[j] = t[j]
        /\ \/ k = Len(s) + 1
           \/ k <= Len(s) /\ s[k] # t[k] /\ Ord(s[k]) < Ord(t[k])

\* sorted(names), for a list.
RECURSIVE Sorted(_)
Sorted(names) ==
    IF Len(names) = 0 THEN <<>>
    ELSE LET rest == Sorted(Tail(names))
             x == Head(names)
             before == SelectSeq(rest, LAMBDA y : ~Less(x, y))
             after == SelectSeq(rest, LAMBDA y : Less(x, y))
         IN before \o <<x>> \o after

\* The elements of a set, in the order the iteration over it gives.
RECURSIVE SetItems(_)
SetItems(S) ==
    IF S = {} THEN <<>>
    ELSE LET x == CHOOSE y \in S : TRUE IN <<x>> \o SetItems(S \ {x})

SourceExts ==
    {<<".", "c">>, <<".", "c", "c">>, <<".", "c", "p", "p">>,
     <<".", "c", "x", "x">>, <<".", "m">>, <<".", "m", "m">>,
     <<".", "s", "w", "i", "f", "t">>}
HeaderExts == {<<".", "h">>}
MGEN == <<"/", "m", "g", "e", "n", "/">>

\* The names the walk adds to a set: those that end with one of the
\* extensions.
Gathered(w, exts) ==
    {w[i] : i \in {j \in 1..Len(w) : \E e \in exts : EndsWith(w[j], e)}}

\* A scan that keeps the order of the walk in place of sorting.
FindSourcesAndHeadersUnsorted(w) ==
    [source_files |->
         SelectSeq(w, LAMBDA f : f \in Gathered(w, SourceExts)
                                    /\ ~Contains(f, MGEN)),
     header_files |->
         SelectSeq(w, LAMBDA f : f \in Gathered(w, HeaderExts)
                                    /\ ~Contains(f, MGEN))]

\* A scan that keeps the generated files.
FindSourcesAndHeadersWithGenerated(w) ==
    [source_files |-> Sorted(SetItems(Gathered(w, SourceExts))),
     header_files |-> Sorted(SetItems(Gathered(w, HeaderExts)))]

\* _find_sources_and_headers(scan_dir), for a walk that yields the names w.
FindSourcesAndHeaders(w) ==
    [source_files |->
         Sorted(SelectSeq(SetItems(Gathered(w, SourceExts)),
                          LAMBDA f : ~Contains(f, MGEN))),
     header_files |->
         Sorted(SelectSeq(SetItems(Gathered(w, HeaderExts)),
                          LAMBDA f : ~Contains(f, MGEN)))]

\* self.source_files + self.header_files
SourceFiles == source_files \o header_files

\* f'src/ballistica{filename}', as the config lists a file.
ConfigName(filename) == <<"src/ballistica">> \o filename

\* _is_public_source_file(f): the config lists no internal source dirs.
IsPublicSourceFile(f) ==
    \/ public
    \/ ConfigName(f) \notin projectconfig.internal_source_files

\* The name of the model's source file, below src/ballistica.
SRCNAME == <<"/", "b", ".", "c", "c">>

\* The marker lines of a CMakeLists.txt, and the line of a source file.
BEGIN_PUBLIC ==
    "  # AUTOGENERATED_PUBLIC_BEGIN (this section is managed by the \"update_project\" tool)"
END_PUBLIC == "  # AUTOGENERATED_PUBLIC_END"
BEGIN_PRIVATE ==
    "  # AUTOGENERATED_PRIVATE_BEGIN (this section is managed by the \"update_project\" tool)"
END_PRIVATE == "  # AUTOGENERATED_PRIVATE_END"
CMakeLine(f) == <<"  ${BA_SRC_ROOT}/ballistica">> \o f
SRCLINE == CMakeLine(SRCNAME)

SectionBegin(section) == IF section = "PUBLIC" THEN BEGIN_PUBLIC ELSE BEGIN_PRIVATE
SectionEnd(section) == IF section = "PUBLIC" THEN END_PUBLIC ELSE END_PRIVATE

\* lines.index(x): the first line that is x, counted from 1; 0 for ValueError.
Index(lines, x) ==
    IF \E i \in 1..Len(lines) : lines[i] = <<x>>
    THEN CHOOSE i \in 1..Len(lines) :
             /\ lines[i] = <<x>>
             /\ \A j \in 1..(i - 1) : lines[j] # <<x>>
    ELSE 0

\* The section's files, in the order of the lines written for them.
SectionFiles(section) ==
    SelectSeq(Sorted(SourceFiles),
              LAMBDA f : /\ ~EndsWith(f, <<".", "m", "m">>)
                         /\ ~EndsWith(f, <<".", "m">>)
                         /\ ~EndsWith(f, <<".", "s", "w", "i", "f", "t">>)
                         /\ IsPublicSourceFile(f) = (section = "PUBLIC"))

\* A variant that writes the files in the order of the inventory.
OurLinesUnsorted(section) ==
    LET fs == SelectSeq(SourceFiles,
                        LAMBDA f : /\ ~EndsWith(f, <<".", "m", "m">>)
                                   /\ ~EndsWith(f, <<".", "m">>)
                                   /\ ~EndsWith(f, <<".", "s", "w", "i", "f", "t">>)
                                   /\ IsPublicSourceFile(f) = (section = "PUBLIC"))
    IN [i \in 1..Len(fs) |-> CMakeLine(fs[i])]

\* The lines of the section's files.
OurLines(section) ==
    LET fs == SectionFiles(section)
    IN [i \in 1..Len(fs) |-> CMakeLine(fs[i])]

\* lines[: auto_start + 1] + our_lines + lines[auto_end:]
Splice(lines, auto_start, auto_end, our_lines) ==
    SubSeq(lines, 1, auto_start) \o our_lines \o SubSeq(lines, auto_end, Len(lines))

\* The loop over the sections: the lines, or <<"ValueError">> in place of
\* them when a marker is missing.
RECURSIVE CMakeSections(_, _)
CMakeSections(lines, sections) ==
    IF Len(sections) = 0 THEN [ok |-> TRUE, lines |-> lines]
    ELSE LET auto_start == Index(lines, SectionBegin(sections[1]))
             auto_end == Index(lines, SectionEnd(sections[1]))
         IN IF auto_start = 0 \/ auto_end = 0
            THEN [ok |-> FALSE, lines |-> lines]
            ELSE CMakeSections(
                     Splice(lines, auto_start, auto_end, OurLines(sections[1])),
                     Tail(sections))

\* The text _generate_cmake_file renders from the existing text.
CMakeText(existing_data) ==
    LET r == CMakeSections(splitlines(existing_data),
                           IF public THEN <<"PUBLIC">> ELSE <<"PUBLIC", "PRIVATE">>)
    IN IF r.ok THEN join(<<LF>>, r.lines) \o <<LF>> ELSE <<"<ValueError>">>

GenerateCMakeFile(st, fname, existing_data) ==
    IF CMakeText(existing_data) = <<"<ValueError>">>
    THEN Raise([st EXCEPT !.calls[fname] = @ + 1], "ValueError")
    ELSE AssignGenerated([st EXCEPT !.calls[fname] = @ + 1], fname,
                         CMakeText(existing_data))

(***************************************************************************)
(* The Visual Studio project and its filters.  A line that names a file is *)
(*   '    <' tag ' Include="' src_root '\' the rest of the path '" />'     *)
(* with the tag, the two pieces around them and src_root as single         *)
(* strings and the rest of the path as characters; any other line is one   *)
(* string.                                                                 *)
(***************************************************************************)
BS == "\\"
SRC_ROOT == "..\\..\\src"
BALLISTICA == <<"b", "a", "l", "l", "i", "s", "t", "i", "c", "a">>
VS_STDAFX == "    <ClCompile Include=\"stdafx.cpp\">"
VS_GROUP == "  <ItemGroup>"
VS_GROUP_END == "  </ItemGroup>"
VS_OPEN == "    <"
VS_INCLUDE == " Include=\""
VS_CLOSE == "\" />"

\* src.replace('/', '\\')
Backslashed(src) == [i \in 1..Len(src) |-> IF src[i] = "/" THEN BS ELSE src[i]]

\* The line of a file of the inventory.
VSLine(src) ==
    <<VS_OPEN, IF EndsWith(src, <<".", "h">>) THEN "ClInclude" ELSE "ClCompile",
      VS_INCLUDE, SRC_ROOT, BS>> \o BALLISTICA \o Backslashed(src) \o <<VS_CLOSE>>

\* 'Plus' not in os.path.basename(fname)
PublicProject(fname) == fname = VCX

\* all_files of _generate_visual_studio_project
VSFiles(fname) ==
    SelectSeq(Sorted(SourceFiles),
              LAMBDA f : /\ ~EndsWith(f, <<".", "m">>)
                         /\ ~EndsWith(f, <<".", "m", "m">>)
                         /\ ~EndsWith(f, <<".", "c">>)
                         /\ ~EndsWith(f, <<".", "s", "w", "i", "f", "t">>)
                         /\ IsPublicSourceFile(f) = PublicProject(fname))

\* lines[i] for an index counted from 0, a negative one counted from the
\* end; the index is in range.
PyAt(lines, i) == IF i < 0 THEN lines[Len(lines) + i + 1] ELSE lines[i + 1]

\* lines[lo:hi] for indexes counted from 0, negative ones counted from the
\* end.
PyBound(lines, i) ==
    IF i < 0 THEN (IF Len(lines) + i < 0 THEN 0 ELSE Len(lines) + i)
    ELSE IF i > Len(lines) THEN Len(lines) ELSE i
PySlice(lines, lo, hi) == SubSeq(lines, PyBound(lines, lo) + 1, PyBound(lines, hi))

\* while lines[begin_index] != '  <ItemGroup>': begin_index -= 1
\* The indexes the loop may stop at, from `index` down and on through the
\* negative ones; none is IndexError.
BeginIndexes(lines, index) ==
    {i \in (0 - Len(lines))..index : PyAt(lines, i) = <<VS_GROUP>>}
\* while lines[end_index] != '  </ItemGroup>': end_index += 1
EndIndexes(lines, index) ==
    {i \in index..(Len(lines) - 1) : PyAt(lines, i) = <<VS_GROUP_END>>}

Highest(S) == CHOOSE i \in S : \A j \in S : j <= i
Lowest(S) == CHOOSE i \in S : \A j \in S : i <= j

\* The text _generate_visual_studio_project renders, or the exception.
VSProjectText(fname, existing_data) ==
    LET lines == splitlines(existing_data)
        index == Index(lines, VS_STDAFX) - 1
    IN IF index < 0 THEN <<"<ValueError>">>
       ELSE IF BeginIndexes(lines, index) = {} \/ EndIndexes(lines, index) = {}
       THEN <<"<IndexError>">>
       ELSE LET begin_index == Highest(BeginIndexes(lines, index))
                end_index == Lowest(EndIndexes(lines, index))
                group_lines ==
                    SelectSeq(PySlice(lines, begin_index + 1, end_index),
                              LAMBDA l : ~Contains(l, <<SRC_ROOT, BS>> \o BALLISTICA
                                                          \o <<BS>>))
                ours == [i \in 1..Len(VSFiles(fname)) |-> VSLine(VSFiles(fname)[i])]
                filtered == PySlice(lines, 0, begin_index + 1) \o ours
                                \o group_lines \o PySlice(lines, end_index, Len(lines))
            IN join(<<CR, LF>>, filtered) \o <<CR, LF>>

GenerateVisualStudioProject(st, fname, existing_data) ==
    LET out == VSProjectText(fname, existing_data)
    IN IF out = <<"<ValueError>">>
       THEN Raise([st EXCEPT !.calls[fname] = @ + 1], "ValueError")
       ELSE IF out = <<"<IndexError>">>
       THEN Raise([st EXCEPT !.calls[fname] = @ + 1], "IndexError")
       ELSE AssignGenerated([st EXCEPT !.calls[fname] = @ + 1], fname, out)

\* s.split(sep) for a separator of one character.
RECURSIVE SplitOn(_, _, _)
SplitOn(s, sep, cur) ==
    IF Len(s) = 0 THEN <<cur>>
    ELSE IF s[1] = sep THEN <<cur>> \o SplitOn(Tail(s), sep, <<>>)
    ELSE SplitOn(Tail(s), sep, Append(cur, s[1]))

\* The directories of a path below src_root: the pieces between the
\* backslashes, without the empty ones and without the last.
FilterSplits(path) ==
    LET pieces == SelectSeq(SplitOn(Tail(path), BS, <<>>), LAMBDA x : x # <<>>)
    IN SubSeq(pieces, 1, Len(pieces) - 1)

\* The three lines of the filters for one line of the project.
FilterEntry(line) ==
    LET entrytype == line[2]
        path == SubSeq(line, 4, Len(line) - 1)
    IN << <<VS_OPEN, entrytype, VS_INCLUDE>> \o path \o <<"\">">>,
          <<"      <Filter>">> \o join(<<BS>>, FilterSplits(path)) \o <<"</Filter>">>,
          <<"    </", entrytype, ">">> >>

RECURSIVE FilterEntries(_)
FilterEntries(sourcelines) ==
    IF Len(sourcelines) = 0 THEN <<>>
    ELSE FilterEntry(Head(sourcelines)) \o FilterEntries(Tail(sourcelines))

\* filterpaths: foo, foo\bar and foo\bar\eep for each line's foo\bar\eep.
FilterPaths(sourcelines) ==
    {join(<<BS>>, SubSeq(FilterSplits(SubSeq(sourcelines[k], 4,
                                             Len(sourcelines[k]) - 1)), 1, i)) :
        <<k, i>> \in {<<k, i>> \in (1..Len(sourcelines)) \X (1..8) :
                         i <= Len(FilterSplits(SubSeq(sourcelines[k], 4,
                                                      Len(sourcelines[k]) - 1)))}}

\* The text _generate_visual_studio_project_filters renders from the text
\* of the project.
VSFiltersText(project) ==
    LET lines_in == splitlines(project)
        sourcelines == SelectSeq(lines_in,
                                 LAMBDA l : Contains(l, <<VS_INCLUDE, SRC_ROOT>>))
        filterpaths == Sorted(SetItems(FilterPaths(sourcelines)))
        filterlines ==
            << <<"<?xml version=\"1.0\" encoding=\"utf-8\"?>">>,
               <<"<Project ToolsVersion=\"4.0\" xmlns=\"http://schemas.microsoft.com/developer/msbuild/2003\">">>,
               <<VS_GROUP>> >>
            \o FilterEntries(sourcelines)
            \o << <<VS_GROUP_END>>, <<VS_GROUP>> >>
            \o [i \in 1..Len(filterpaths) |->
                    <<"    <Filter Include=\"">> \o filterpaths[i] \o <<VS_CLOSE>>]
            \o << <<VS_GROUP_END>>, <<"</Project>">> >>
    IN join(<<CR, LF>>, filterlines) \o <<CR, LF>>

\* A renderer of one file, outside this file: xcode project, top-level
\* Makefile, resources Makefile, app module.
GenerateSingle(st, path, existing_data) ==
    AssignGenerated([st EXCEPT !.calls[path] = @ + 1], path, renders.out[path])

GeneratePassthroughFile(st, path, existing_data) ==
    AssignGenerated([st EXCEPT !.calls[path] = @ + 1], path, existing_data)

GenerateMetaMakefile(st, existing_data) ==
    AssignAll([st EXCEPT !.calls[META] = @ + 1],
              OutFiles(MetaOutOrder, renders.meta))

\* The input data of a cache miss: the enqueued data, else the file.
ExistingData(path) ==
    LET data == DictGetOrNone(enqueued_updates, path)
    IN IF data # None THEN data
       ELSE IF disk[path] = Absent THEN None
       ELSE ReadText(disk[path])

RECURSIVE GenerateFile(_, _)

\* The filters of the project text that the call for the project left in
\* the cache.
RenderFilters(s1, fname) ==
    IF ~s1.ok THEN s1
    ELSE AssignGenerated([s1 EXCEPT !.calls[fname] = @ + 1], fname,
                         VSFiltersText(DictGet(s1.cache, VCX)))

\* Filters that call the renderer of the project themselves.
GenerateVisualStudioProjectFiltersDirect(st, fname, existing_data) ==
    RenderFilters(IF ExistingData(VCX) = None THEN Raise(st, "FileNotFoundError")
                  ELSE GenerateVisualStudioProject(st, VCX, ExistingData(VCX)),
                  fname)

\* The filters are rendered from the project, asked of generate_file.
GenerateVisualStudioProjectFilters(st, fname, existing_data) ==
    RenderFilters(GenerateFile(st, VCX), fname)

\* The second of the meta manifests the assets renderer asks for.
PrivateManifest(s1) == IF s1.ok THEN GenerateFile(s1, MPRIV) ELSE s1

\* generate_assets_makefile(...) and the loop over its outfiles.
RenderAssets(s2, path) ==
    IF ~s2.ok THEN s2
    ELSE AssignAll([s2 EXCEPT !.calls[path] = @ + 1],
                   OutFiles(AssetsOutOrder, renders.assets))

GenerateAssetsMakefile(st, path, existing_data) ==
    RenderAssets(PrivateManifest(GenerateFile(st, MPUB)), path)

\* assert path in self._generated_files, after the call for the Makefile.
AssertGenerated(s1, path) ==
    IF s1.ok /\ ~DictHas(s1.cache, path) THEN Raise(s1, "AssertionError") ELSE s1

\* A dispatch table whose meta manifests ask for the assets Makefile.
DispatchCyclic(st, path, existing_data) ==
    IF path = XCODE THEN GenerateSingle(st, path, existing_data)
    ELSE IF path = VCXF
         THEN GenerateVisualStudioProjectFilters(st, path, existing_data)
    ELSE IF path = VCX THEN GenerateVisualStudioProject(st, path, existing_data)
    ELSE IF path = CMAKE THEN GenerateCMakeFile(st, path, existing_data)
    ELSE IF path = TOP THEN GenerateSingle(st, path, existing_data)
    ELSE IF path = ASSETS THEN GenerateAssetsMakefile(st, path, existing_data)
    ELSE IF path = APUB THEN GenerateFile(st, ASSETS)
    ELSE IF path = APRIV
         THEN IF public THEN GeneratePassthroughFile(st, path, existing_data)
              ELSE GenerateFile(st, ASSETS)
    ELSE IF path = RES THEN GenerateSingle(st, path, existing_data)
    ELSE IF path = META THEN GenerateMetaMakefile(st, existing_data)
    ELSE IF path = APP THEN GenerateSingle(st, path, existing_data)
    ELSE IF path \in {MPUB, MPRIV}
         THEN AssertGenerated(GenerateFile(st, ASSETS), path)
    ELSE Raise(st, "RuntimeError: no known formula")

\* The if/elif chain of generate_file, in its order.
Dispatch(st, path, existing_data) ==
    IF path = XCODE THEN GenerateSingle(st, path, existing_data)
    ELSE IF path = VCXF
         THEN GenerateVisualStudioProjectFilters(st, path, existing_data)
    ELSE IF path = VCX THEN GenerateVisualStudioProject(st, path, existing_data)
    ELSE IF path = CMAKE THEN GenerateCMakeFile(st, path, existing_data)
    ELSE IF path = TOP THEN GenerateSingle(st, path, existing_data)
    ELSE IF path = ASSETS THEN GenerateAssetsMakefile(st, path, existing_data)
    ELSE IF path = APUB THEN GenerateFile(st, ASSETS)
    ELSE IF path = APRIV
         THEN IF public THEN GeneratePassthroughFile(st, path, existing_data)
              ELSE GenerateFile(st, ASSETS)
    ELSE IF path = RES THEN GenerateSingle(st, path, existing_data)
    ELSE IF path = META THEN GenerateMetaMakefile(st, existing_data)
    ELSE IF path = APP THEN GenerateSingle(st, path, existing_data)
    ELSE IF path \in {MPUB, MPRIV}
         THEN AssertGenerated(GenerateFile(st, META), path)
    ELSE Raise(st, "RuntimeError: no known formula")

\* generate_file(path) is entered: one more call, one more on the stack.
Entered(st, path) ==
    [st EXCEPT !.nested = @ + 1,
               !.stack = Append(@, path),
               !.deep = IF Len(st.stack) + 1 > @ THEN Len(st.stack) + 1 ELSE @]

InProgress(st, path) == \E i \in 1..Len(st.stack) : st.stack[i] = path

\* A cache miss: the input is read, then the dispatch.  A miss of a path
\* whose own generate_file is still on the stack asks the dispatch table
\* what it asked before: the calls go on until Python raises RecursionError.
Missed(st, s0, path) ==
    IF ExistingData(path) = None THEN Raise(s0, "FileNotFoundError")
    ELSE IF InProgress(st, path) THEN Raise(s0, "RecursionError")
    ELSE Dispatch(s0, path, ExistingData(path))

\* A return that gives the input it read when the dispatch has left the
\* path out of the cache.
ReturnedUnasserted(st, s1, path) ==
    IF ~s1.ok THEN s1
    ELSE [s1 EXCEPT !.returned[path] =
                        @ \cup {IF DictHas(s1.cache, path)
                                THEN DictGet(s1.cache, path)
                                ELSE ExistingData(path)},
                    !.stack = st.stack]

\* assert path in self._generated_files; return self._generated_files[path]
Returned(st, s1, path) ==
    IF ~s1.ok THEN s1
    ELSE IF ~DictHas(s1.cache, path) THEN Raise(s1, "AssertionError")
    ELSE [s1 EXCEPT !.returned[path] = @ \cup {DictGet(s1.cache, path)},
                    !.stack = st.stack]

\* A generate_file that asks the dispatch table without looking in the
\* cache.
GenerateFileNoMemo(st, path) ==
    IF ~can_generate_files THEN Raise(st, "RuntimeError: cannot generate")
    ELSE Returned(st, Missed(st, Entered(st, path), path), path)

\* A generate_file without its last assertion.
GenerateFileUnasserted(st, path) ==
    IF ~can_generate_files THEN Raise(st, "RuntimeError: cannot generate")
    ELSE ReturnedUnasserted(st,
                            IF DictHas(st.cache, path) THEN Entered(st, path)
                            ELSE Missed(st, Entered(st, path), path),
                            path)

GenerateFile(st, path) ==
    IF ~can_generate_files THEN Raise(st, "RuntimeError: cannot generate")
    ELSE Returned(st,
                  IF DictHas(st.cache, path) THEN Entered(st, path)
                  ELSE Missed(st, Entered(st, path), path),
                  path)

\* The call's view of the updater, and the updater after the call.
GenState ==
    [ok |-> TRUE, err |-> "none", cache |-> generated_files, calls |-> calls,
     assigns |-> assigns, returned |-> returned, stack |-> <<>>, nested |-> 0,
     deep |-> 0]

(***************************************************************************)
(* The constructor and the calls made on the updater before run().         *)
(***************************************************************************)
\* An exception leaves the call: its kind, and where run() or the caller stood.
Fail(kind) == pc' = "failed" /\ error' = [kind |-> kind, at |-> pc]

\* The updates the constructor schedules unless `empty`, in its order, for
\* the paths of the model.
DefaultUpdates(pub) ==
    <<META, RES, ASSETS, TOP, CMAKE, VCXF, VCX>>
        \o (IF pub THEN <<>> ELSE <<XCODE>>) \o <<APP>>

RECURSIVE EnqueueAll(_, _)
EnqueueAll(d, paths) ==
    IF Len(paths) = 0 THEN d
    ELSE EnqueueAll(DictSet(d, paths[1], None), Tail(paths))

\* Construct with the project config read before the fix-and-check test.
ConstructConfigFirst(c, f, empty) ==
    /\ pc = "new"
    /\ check' = c
    /\ fix' = f
    /\ public' = projectconfig.public
    /\ config_reads' = config_reads + (IF f /\ c THEN 1 ELSE 2)
    /\ IF f /\ c
       THEN Fail("RuntimeError: fix and check")
            /\ UNCHANGED <<run_file_checks, enqueued_updates>>
       ELSE /\ run_file_checks' = ~empty
            /\ pc' = "constructed"
            /\ error' = error
            /\ enqueued_updates' =
                   IF empty THEN <<>>
                   ELSE EnqueueAll(<<>>, DefaultUpdates(projectconfig.public))
    /\ UNCHANGED <<envVars, genVars, runVars, applyVars, line_corrections>>

\* ProjectUpdater(projroot, check=c, fix=f, empty=empty)
Construct(c, f, empty) ==
    /\ pc = "new"
    /\ check' = c
    /\ fix' = f
    /\ IF f /\ c
       THEN /\ Fail("RuntimeError: fix and check")
            /\ UNCHANGED <<public, config_reads, run_file_checks, enqueued_updates>>
       ELSE /\ public' = projectconfig.public
            /\ config_reads' = config_reads + 2
            /\ run_file_checks' = ~empty
            /\ IF ~empty /\ projectconfig.public /\ disk[XCODE] # Absent
               THEN /\ Fail("AssertionError")
                    /\ enqueued_updates' =
                           EnqueueAll(<<>>, <<META, RES, ASSETS, TOP, CMAKE, VCXF,
                                              VCX>>)
               ELSE /\ pc' = "constructed"
                    /\ error' = error
                    /\ enqueued_updates' =
                           IF empty THEN <<>>
                           ELSE EnqueueAll(<<>>, DefaultUpdates(projectconfig.public))
    /\ UNCHANGED <<envVars, genVars, runVars, applyVars, line_corrections>>

\* Where the updater is in the hands of its owner, or of a check that
\* run() has passed it to.
Callable == {"constructed", "prepared", "checking", "done"}

\* enqueue_update(path, data), called by the owner or by a check.
EnqueueUpdate(path, data) ==
    /\ pc \in Callable
    /\ enqueued_updates' = DictSet(enqueued_updates, path, data)
    /\ UNCHANGED <<ctlVars, modeVars, envVars, genVars, runVars, applyVars,
                   line_corrections>>

\* self._line_corrections.setdefault(filename, []).append(change)
LedgerAppend(d, filename, change) ==
    DictSet(d, filename,
            Append(IF DictHas(d, filename) THEN DictGet(d, filename) ELSE <<>>,
                   change))

\* The ledger's entries as _apply_line_changes walks them: file by file in
\* the dict's order, each file's list in its order.
RECURSIVE LedgerEntries(_)
LedgerEntries(d) ==
    IF Len(d) = 0 THEN <<>>
    ELSE [i \in 1..Len(d[1].val) |-> [fname |-> d[1].key, change |-> d[1].val[i]]]
         \o LedgerEntries(Tail(d))

\* A variant without the assertion on the line number.
AddLineCorrectionUnchecked(filename, line_number, expected, can_auto_update) ==
    /\ pc \in {"constructed", "checking"}
    /\ line_corrections' =
           LedgerAppend(line_corrections, filename,
                        [line_number |-> line_number, expected |-> expected,
                         can_auto_update |-> can_auto_update])
    /\ UNCHANGED <<pc, error, modeVars, envVars, genVars, runVars, applyVars,
                   enqueued_updates>>

\* add_line_correction(filename, line_number, expected, can_auto_update),
\* called by a check during run() or by the caller before it.
AddLineCorrection(filename, line_number, expected, can_auto_update) ==
    /\ pc \in {"constructed", "checking"}
    /\ IF line_number >= 0
       THEN /\ line_corrections' =
                   LedgerAppend(line_corrections, filename,
                                [line_number |-> line_number, expected |-> expected,
                                 can_auto_update |-> can_auto_update])
            /\ UNCHANGED <<pc, error>>
       ELSE /\ Fail("AssertionError")
            /\ UNCHANGED line_corrections
    /\ UNCHANGED <<modeVars, envVars, genVars, runVars, applyVars,
                   enqueued_updates>>

(***************************************************************************)
(* run(): prepare, generate every enqueued update, run the checks, lock,   *)
(* apply the line corrections, apply the whole-file changes.               *)
(***************************************************************************)
\* A variant that scans and enables generation before it tests the root.
PrepareScanFirst(has_config, has_tools, then) ==
    /\ scanned' = TRUE
    /\ source_files' = FindSourcesAndHeaders(walk).source_files
    /\ header_files' = FindSourcesAndHeaders(walk).header_files
    /\ can_generate_files' = TRUE
    /\ IF ~has_config \/ ~has_tools
       THEN Fail("RuntimeError: projroot is not valid")
       ELSE pc' = then /\ error' = error

\* prepare_to_generate(): the two directory tests see the tree; the scan
\* sets the source and header files.  `then` is where a success leads.
Prepare(has_config, has_tools, then) ==
    IF ~has_config \/ ~has_tools
    THEN /\ Fail("RuntimeError: projroot is not valid")
         /\ UNCHANGED <<scanned, source_files, header_files,
                         can_generate_files>>
    ELSE /\ scanned' = TRUE
         /\ source_files' = FindSourcesAndHeaders(walk).source_files
         /\ header_files' = FindSourcesAndHeaders(walk).header_files
         /\ can_generate_files' = TRUE
         /\ pc' = then
         /\ error' = error

\* The caller calls prepare_to_generate() itself, to ask for files with
\* generate_file() without a run().
CallPrepareToGenerate(has_config, has_tools) ==
    /\ pc \in {"constructed", "prepared", "done"}
    /\ Prepare(has_config, has_tools, "prepared")
    /\ UNCHANGED <<modeVars, envVars, genVars, applyVars, enqueued_updates,
                   line_corrections, start_updates, next_update, disk0,
                   locked, phases>>

\* run() begins: prepare_to_generate(), then the snapshot of the updates.
RunStart(has_config, has_tools) ==
    /\ Prepare(has_config, has_tools, "generating")
    /\ start_updates' = IF has_config /\ has_tools THEN enqueued_updates
                        ELSE start_updates
    /\ next_update' = 1
    /\ disk0' = disk
    /\ phases' = IF has_config /\ has_tools THEN <<"scan", "generate">> ELSE <<>>
    /\ UNCHANGED <<modeVars, envVars, genVars, applyVars, enqueued_updates,
                   line_corrections, locked>>

\* run() on the updater as constructed.
PrepareToGenerate(has_config, has_tools) ==
    /\ pc = "constructed"
    /\ RunStart(has_config, has_tools)

\* Files written so far, up to which run() is called once more.
MaxWrites == 2

\* run() on an updater whose owner has called prepare_to_generate(), or
\* whose run() has returned before.
RunAgain(has_config, has_tools) ==
    /\ pc \in {"prepared", "done"}
    /\ Len(writes) < MaxWrites
    /\ RunStart(has_config, has_tools)

\* What a generate_file call leaves on the updater.
Generated(st) ==
    /\ generated_files' = st.cache
    /\ calls' = st.calls
    /\ assigns' = st.assigns
    /\ returned' = st.returned
    /\ chain' = [nested |-> IF st.nested > chain.nested THEN st.nested
                            ELSE chain.nested,
                 deepest |-> IF st.deep > chain.deepest THEN st.deep
                             ELSE chain.deepest]

\* One turn of: for path in self._enqueued_updates: self.generate_file(path)
GenerateNext ==
    /\ pc = "generating"
    /\ next_update <= Len(enqueued_updates)
    /\ LET st == GenerateFile(GenState, enqueued_updates[next_update].key)
       IN /\ Generated(st)
          /\ IF st.ok THEN next_update' = next_update + 1 /\ UNCHANGED <<pc, error>>
             ELSE Fail(st.err) /\ UNCHANGED next_update
    /\ UNCHANGED <<modeVars, envVars, applyVars, enqueued_updates, line_corrections,
                   scanned, source_files, header_files, can_generate_files,
                   start_updates, disk0, locked,
                   phases>>

\* A variant that goes on to the lock without the checks.
BeginChecksSkipped ==
    /\ pc = "generating"
    /\ next_update > Len(enqueued_updates)
    /\ pc' = "locking"
    /\ UNCHANGED <<error, modeVars, envVars, genVars, runVars, applyVars,
                   enqueued_updates, line_corrections>>

\* The loop is over: the checks run if they are enabled.
BeginChecks ==
    /\ pc = "generating"
    /\ next_update > Len(enqueued_updates)
    /\ pc' = IF run_file_checks THEN "checking" ELSE "locking"
    /\ phases' = IF run_file_checks THEN Append(phases, "checks") ELSE phases
    /\ UNCHANGED <<error, modeVars, envVars, genVars, applyVars,
                   enqueued_updates, line_corrections, scanned, source_files,
                   header_files,
                   can_generate_files, start_updates, next_update, disk0, locked>>

\* generate_file(path), called by the owner or by a check during run().
CallGenerateFile(path) ==
    /\ pc \in Callable
    /\ LET st == GenerateFile(GenState, path)
       IN /\ Generated(st)
          /\ IF st.ok THEN UNCHANGED <<pc, error>> ELSE Fail(st.err)
    /\ UNCHANGED <<modeVars, envVars, runVars, applyVars, enqueued_updates,
                   line_corrections>>

\* The last check has returned.
EndChecks ==
    /\ pc = "checking"
    /\ pc' = "locking"
    /\ UNCHANGED <<error, modeVars, envVars, genVars, runVars, applyVars,
                   enqueued_updates, line_corrections>>

\* A lock after which run() goes to the whole-file pass.
LockThenFiles ==
    /\ pc = "locking"
    /\ can_generate_files' = FALSE
    /\ locked' = TRUE
    /\ phases' = Append(phases, "lock")
    /\ IF DictEq(start_updates, enqueued_updates)
       THEN pc' = "apply_files" /\ error' = error
       ELSE Fail("AssertionError")
    /\ UNCHANGED <<modeVars, envVars, genVars, applyVars, enqueued_updates,
                   line_corrections, scanned, source_files,
                   header_files, start_updates, next_update, disk0>>

\* The lock without its assertion.
LockNoAssert ==
    /\ pc = "locking"
    /\ can_generate_files' = FALSE
    /\ locked' = TRUE
    /\ phases' = Append(phases, "lock")
    /\ pc' = "apply_lines"
    /\ error' = error
    /\ UNCHANGED <<modeVars, envVars, genVars, applyVars, enqueued_updates,
                   line_corrections, scanned, source_files,
                   header_files, start_updates, next_update, disk0>>

\* self._can_generate_files = False; assert start_updates == self._enqueued_updates
Lock ==
    /\ pc = "locking"
    /\ can_generate_files' = FALSE
    /\ locked' = TRUE
    /\ phases' = Append(phases, "lock")
    /\ IF DictEq(start_updates, enqueued_updates)
       THEN pc' = "apply_lines" /\ error' = error
       ELSE Fail("AssertionError")
    /\ UNCHANGED <<modeVars, envVars, genVars, applyVars, enqueued_updates,
                   line_corrections, scanned, source_files,
                   header_files, start_updates, next_update, disk0>>

(***************************************************************************)
(* _apply_line_changes                                                     *)
(***************************************************************************)
ManualChanges(entries) == SelectSeq(entries, LAMBDA e : ~e.change.can_auto_update)
AutoChanges(entries) == SelectSeq(entries, LAMBDA e : e.change.can_auto_update)

\* The lines of a file as the pass reads them: read().splitlines()
FileLines(d, fname) == splitlines(ReadText(d[fname]))

\* Not in fix mode: each auto change is listed with the line found in the
\* file, then CleanError; a file or a line that is not there raises first.
RECURSIVE ReportAutoChanges(_, _)
ReportAutoChanges(changes, d) ==
    IF Len(changes) = 0 THEN "CleanError: auto-fixable"
    ELSE IF d[changes[1].fname] = Absent THEN "FileNotFoundError"
    ELSE IF changes[1].change.line_number >= Len(FileLines(d, changes[1].fname))
         THEN "IndexError"
    ELSE ReportAutoChanges(Tail(changes), d)

\* A variant that takes the line number for a one-based index.
CorrectedTextOneBased(lines, change) ==
    join(<<LF>>, [lines EXCEPT ![change.line_number] = change.expected])
        \o <<LF>>

\* The text written for one corrected file: '\n'.join(lines) + '\n'
CorrectedText(lines, change) ==
    join(<<LF>>, [lines EXCEPT ![change.line_number + 1] = change.expected])
        \o <<LF>>

\* A variant that writes nothing unless every change can be made: on an
\* exception the files are as the pass found them.
RECURSIVE CorrectLinesAtomicFrom(_, _, _)
CorrectLinesAtomicFrom(changes, st, found) ==
    IF Len(changes) = 0 THEN st
    ELSE LET fname == changes[1].fname
             change == changes[1].change
         IN IF st.disk[fname] = Absent
            THEN [found EXCEPT !.ok = FALSE, !.err = "FileNotFoundError"]
            ELSE IF change.line_number >= Len(FileLines(st.disk, fname))
            THEN [found EXCEPT !.ok = FALSE, !.err = "IndexError"]
            ELSE LET data == WriteText(CorrectedText(FileLines(st.disk, fname), change))
                 IN CorrectLinesAtomicFrom(Tail(changes),
                        [st EXCEPT !.disk[fname] = data,
                                   !.writes = Append(@, [by |-> "lines",
                                                         path |-> fname,
                                                         data |-> data])],
                        found)

CorrectLinesAtomic(changes, st) == CorrectLinesAtomicFrom(changes, st, st)

\* A variant that makes each change on the file as the pass found it.
RECURSIVE CorrectLinesOnOriginal(_, _)
CorrectLinesOnOriginal(changes, st) ==
    IF Len(changes) = 0 THEN st
    ELSE LET fname == changes[1].fname
             change == changes[1].change
         IN IF disk[fname] = Absent
            THEN [st EXCEPT !.ok = FALSE, !.err = "FileNotFoundError"]
            ELSE IF change.line_number >= Len(FileLines(disk, fname))
            THEN [st EXCEPT !.ok = FALSE, !.err = "IndexError"]
            ELSE LET data == WriteText(CorrectedText(FileLines(disk, fname), change))
                 IN CorrectLinesOnOriginal(Tail(changes),
                        [st EXCEPT !.disk[fname] = data,
                                   !.writes = Append(@, [by |-> "lines",
                                                         path |-> fname,
                                                         data |-> data])])

\* In fix mode: each auto change in turn, on the file as it then is.
\* st is [ok, err, disk, writes].
RECURSIVE CorrectLines(_, _)
CorrectLines(changes, st) ==
    IF Len(changes) = 0 THEN st
    ELSE LET fname == changes[1].fname
             change == changes[1].change
         IN IF st.disk[fname] = Absent
            THEN [st EXCEPT !.ok = FALSE, !.err = "FileNotFoundError"]
            ELSE IF change.line_number >= Len(FileLines(st.disk, fname))
            THEN [st EXCEPT !.ok = FALSE, !.err = "IndexError"]
            ELSE LET data == WriteText(CorrectedText(FileLines(st.disk, fname), change))
                 IN CorrectLines(Tail(changes),
                        [st EXCEPT !.disk[fname] = data,
                                   !.writes = Append(@, [by |-> "lines",
                                                         path |-> fname,
                                                         data |-> data])])

\* A variant that, in fix mode, corrects what it can before it bails on the
\* manual entries.
LinePassFixFirst(ledger, is_fix, d, w) ==
    LET entries == LedgerEntries(ledger)
        st == [ok |-> TRUE, err |-> "none", disk |-> d, writes |-> w]
        fixed == IF is_fix THEN CorrectLines(AutoChanges(entries), st) ELSE st
    IN IF fixed.ok /\ Len(ManualChanges(entries)) > 0
       THEN [fixed EXCEPT !.ok = FALSE, !.err = "CleanError: manual"]
       ELSE IF fixed.ok /\ Len(AutoChanges(entries)) > 0 /\ ~is_fix
            THEN [st EXCEPT !.ok = FALSE,
                            !.err = ReportAutoChanges(AutoChanges(entries), d)]
            ELSE fixed

\* A variant that lists the pending auto changes and returns.
LinePassNoRaise(ledger, is_fix, d, w) ==
    LET entries == LedgerEntries(ledger)
        st == [ok |-> TRUE, err |-> "none", disk |-> d, writes |-> w]
    IN IF Len(ManualChanges(entries)) > 0
       THEN [st EXCEPT !.ok = FALSE, !.err = "CleanError: manual"]
       ELSE IF Len(AutoChanges(entries)) > 0 /\ is_fix
            THEN CorrectLines(AutoChanges(entries), st)
            ELSE st

\* The whole pass: [ok, err, disk, writes] as it leaves them.
LinePass(ledger, is_fix, d, w) ==
    LET entries == LedgerEntries(ledger)
        st == [ok |-> TRUE, err |-> "none", disk |-> d, writes |-> w]
    IN IF Len(ManualChanges(entries)) > 0
       THEN [st EXCEPT !.ok = FALSE, !.err = "CleanError: manual"]
       ELSE IF Len(AutoChanges(entries)) > 0
            THEN IF ~is_fix
                 THEN [st EXCEPT !.ok = FALSE,
                                 !.err = ReportAutoChanges(AutoChanges(entries), d)]
                 ELSE CorrectLines(AutoChanges(entries), st)
            ELSE st

ApplyLineChanges ==
    /\ pc = "apply_lines"
    /\ LET st == LinePass(line_corrections, fix, disk, writes)
       IN /\ disk' = st.disk
          /\ writes' = st.writes
          /\ disk1' = st.disk
          /\ IF st.ok THEN pc' = "apply_files" /\ error' = error ELSE Fail(st.err)
    /\ phases' = Append(phases, "lines")
    /\ UNCHANGED <<modeVars, envVars, genVars, unchanged_file_count,
                   enqueued_updates, line_corrections, scanned, source_files,
                   header_files,
                   can_generate_files, start_updates, next_update, disk0, locked>>

(***************************************************************************)
(* _apply_file_changes                                                     *)
(***************************************************************************)
\* The file as the pass reads it, None when it does not exist.
OrigText(d, fname) == IF d[fname] = Absent THEN None ELSE ReadText(d[fname])

\* A variant that compares the generated text as it is.
UpToDateRaw(d, fname, fcode) == OrigText(d, fname) = fcode

\* A variant that takes a missing file for one that is up to date.
UpToDateOrMissing(d, fname, fcode) ==
    d[fname] = Absent \/ OrigText(d, fname) = ReplaceCRLF(fcode)

\* f_orig == fcodefin
UpToDate(d, fname, fcode) == OrigText(d, fname) = ReplaceCRLF(fcode)

\* A variant that writes the text it compared.
RealFileTextNormalised(fcode) == WriteText(ReplaceCRLF(fcode))

\* What the pass writes to the real path: outfile.write(fcode)
RealFileText(fcode) == WriteText(fcode)

\* The loop over self._generated_files.items().
\* st is [ok, err, disk, writes, unchanged].
RECURSIVE WriteChanged(_, _, _)
WriteChanged(items, is_check, st) ==
    IF Len(items) = 0 THEN st
    ELSE LET fname == items[1].key
             fcode == items[1].val
         IN IF UpToDate(st.disk, fname, fcode)
            THEN WriteChanged(Tail(items), is_check,
                              [st EXCEPT !.unchanged = @ + 1])
            ELSE IF is_check
            THEN [st EXCEPT !.ok = FALSE, !.err = "CleanError: out-of-date",
                            !.disk[ERRFILE] = WriteText(ReplaceCRLF(fcode)),
                            !.writes = Append(@, [by |-> "files", path |-> ERRFILE,
                                                  data |-> WriteText(ReplaceCRLF(fcode))])]
            ELSE WriteChanged(Tail(items), is_check,
                     [st EXCEPT !.disk[fname] = RealFileText(fcode),
                                !.writes = Append(@, [by |-> "files", path |-> fname,
                                                      data |-> RealFileText(fcode)])])

\* A variant that never takes the check branch.
FilePassIgnoringCheck(cache, is_check, d, w) ==
    WriteChanged(cache, FALSE,
                 [ok |-> TRUE, err |-> "none", disk |-> d, writes |-> w,
                  unchanged |-> 0])

\* A variant that writes in fix mode only.
FilePassUnlessFix(cache, is_check, d, w) ==
    WriteChanged(cache, is_check \/ ~fix,
                 [ok |-> TRUE, err |-> "none", disk |-> d, writes |-> w,
                  unchanged |-> 0])

\* A variant that leaves alone the files the line-correction pass wrote.
FilePassKeepingCorrected(cache, is_check, d, w) ==
    WriteChanged(SelectSeq(cache, LAMBDA item :
                               \A i \in 1..Len(w) : w[i].path # item.key),
                 is_check,
                 [ok |-> TRUE, err |-> "none", disk |-> d, writes |-> w,
                  unchanged |-> 0])

FilePass(cache, is_check, d, w) ==
    WriteChanged(cache, is_check,
                 [ok |-> TRUE, err |-> "none", disk |-> d, writes |-> w,
                  unchanged |-> 0])

ApplyFileChanges ==
    /\ pc = "apply_files"
    /\ LET st == FilePass(generated_files, check, disk, writes)
       IN /\ disk' = st.disk
          /\ writes' = st.writes
          /\ unchanged_file_count' = st.unchanged
          /\ IF st.ok THEN pc' = "done" /\ error' = error ELSE Fail(st.err)
          /\ phases' = IF st.ok THEN phases \o <<"files", "done">>
                        ELSE Append(phases, "files")
    /\ UNCHANGED <<modeVars, envVars, genVars, disk1, enqueued_updates,
                   line_corrections, scanned, source_files,
                   header_files, can_generate_files, start_updates,
                   next_update, disk0, locked>>

(***************************************************************************)
(* Bounds and inputs.                                                      *)
(***************************************************************************)
MaxTextLen == 2      \* characters of a text the whole-file pass compares
MaxFileLen == 3      \* characters of a file the line pass corrects
MaxLine == 2         \* largest line number of a correction
MaxCorrections == 2  \* entries of the ledger
MaxUpdates == 2      \* updates the caller enqueues on an empty updater

\* Every text of at most n characters over an alphabet.
TextsOver(alphabet, n) == UNION {[1..k -> alphabet] : k \in 0..n}

OldText == <<"a", LF>>
NewText == <<"b", LF>>
GivenText == <<"c", LF>>

\* A tree with every file of the model but the xcode project of a public
\* repository, the files of `gone`, and the diagnostic dump.
Tree(pub, gone, text) ==
    [f \in Files |->
        IF f \in gone \/ f = ERRFILE \/ (pub /\ f = XCODE) THEN Absent ELSE text[f]]

\* A CMakeLists.txt as the tool leaves it for the tree of the model.
CMakeOld ==
    <<BEGIN_PUBLIC, LF>> \o SRCLINE
        \o <<LF, END_PUBLIC, LF, BEGIN_PRIVATE, LF, END_PRIVATE, LF>>

\* The walk of a tree with the model's source file, or without it.
WalkOf(tree) == IF tree[SRCFILE] # Absent THEN <<SRCNAME>> ELSE <<>>

ProjectConfig(pub, internal) ==
    [public |-> pub, internal_source_files |-> internal]

\* A Visual Studio project and its filters as the tool leaves them for the
\* tree of the model.
VSOld ==
    join(<<CR, LF>>, << <<VS_GROUP>>, VSLine(SRCNAME), <<VS_STDAFX>>,
                        <<VS_GROUP_END>> >>) \o <<CR, LF>>

AllOld ==
    [f \in Files |-> IF f = CMAKE THEN CMakeOld
                     ELSE IF f = VCX THEN VSOld
                     ELSE IF f = VCXF THEN VSFiltersText(VSOld)
                     ELSE OldText]
AllNew == [p \in Paths |-> NewText]

AssetsEmits == {{ASSETS, APUB, APRIV}, {ASSETS, APUB}, {ASSETS}}
MetaEmits == {{META, MPUB, MPRIV}, {META, MPUB}}

InitUpdater ==
    /\ pc = "new"
    /\ error = NoError
    /\ check = FALSE
    /\ fix = FALSE
    /\ public = FALSE
    /\ run_file_checks = TRUE
    /\ config_reads = 0
    /\ enqueued_updates = <<>>
    /\ line_corrections = <<>>
    /\ can_generate_files = FALSE
    /\ generated_files = <<>>
    /\ scanned = FALSE
    /\ source_files = None
    /\ header_files = None
    /\ start_updates = <<>>
    /\ next_update = 1
    /\ calls = [p \in Paths |-> 0]
    /\ assigns = [p \in Paths |-> 0]
    /\ returned = [p \in Paths |-> {}]
    /\ chain = [nested |-> 0, deepest |-> 0]
    /\ writes = <<>>
    /\ unchanged_file_count = 0
    /\ locked = FALSE
    /\ phases = <<>>
    /\ prior_runs = 0
    /\ disk0 = disk
    /\ disk1 = disk

\* Whether the caller may enqueue one more path: the constructor's own
\* updates may always be given data.
MayEnqueue(path) ==
    \/ DictHas(enqueued_updates, path)
    \/ Len(enqueued_updates) < MaxUpdates

MayCorrect == Len(LedgerEntries(line_corrections)) < MaxCorrections

(***************************************************************************)
(* Spec: generation and dispatch.  Stale renderings of every artifact, a   *)
(* file missing here and there, renderers that emit all or some of their   *)
(* files, any order of enqueued updates.                                   *)
(***************************************************************************)
GoneChoices == {{}, {TOP}, {APRIV}, {MPUB}, {UNKNOWN}, {VCX}}

EnqueueInputs ==
    {<<TOP, None>>, <<ASSETS, None>>, <<APUB, None>>, <<APRIV, None>>,
     <<APRIV, GivenText>>, <<APRIV, <<>>>>, <<MPUB, None>>, <<UNKNOWN, None>>,
     <<UNKNOWN, GivenText>>, <<VCXF, None>>, <<VCX, None>>}

CheckPaths == {APRIV, ASSETS, MPRIV}

Init ==
    /\ projectconfig \in {ProjectConfig(b, {}) : b \in BOOLEAN}
    /\ \E gone \in GoneChoices : disk = Tree(projectconfig.public, gone, AllOld)
    /\ \E a \in AssetsEmits, m \in MetaEmits :
           renders = [out |-> AllNew, assets |-> a, meta |-> m]
    /\ walk = WalkOf(disk)
    /\ InitUpdater

Run ==
    \/ \E has_config, has_tools \in BOOLEAN : PrepareToGenerate(has_config, has_tools)
    \/ GenerateNext
    \/ BeginChecks
    \/ EndChecks
    \/ Lock
    \/ ApplyLineChanges
    \/ ApplyFileChanges

Next ==
    \/ \E c, f, empty \in BOOLEAN : Construct(c, f, empty)
    \/ \E u \in EnqueueInputs :
           pc = "constructed" /\ MayEnqueue(u[1]) /\ EnqueueUpdate(u[1], u[2])
    \/ \E auto \in BOOLEAN :
           /\ pc = "checking"
           /\ MayCorrect
           /\ AddLineCorrection(SRCFILE, 0, <<"b">>, auto)
    \/ \E p \in CheckPaths :
           pc \in {"prepared", "checking"} /\ CallGenerateFile(p)
    \/ \E has_config, has_tools \in BOOLEAN :
           pc = "constructed" /\ CallPrepareToGenerate(has_config, has_tools)
    \/ Run

Spec == Init /\ [][Next]_vars

(***************************************************************************)
(* SpecLines: the line-correction pass.  The source file holds any text    *)
(* of a few characters, or is missing; the checks fill the ledger with     *)
(* corrections of it, of any mode, and with one of a generated file.       *)
(***************************************************************************)
Chars == {"a", CR, LF}

ExpectedTexts == {<<"b">>, <<"c">>, <<"b", LF, "b">>, <<"c", FF>>}

Correction(f, n, e, a) == [fname |-> f, line |-> n, expected |-> e, auto |-> a]

CorrectionInputs ==
    {Correction(SRCFILE, n, e, TRUE) : n \in 0..MaxLine, e \in ExpectedTexts}
    \cup {Correction(SRCFILE, 0, <<"b">>, FALSE), Correction(TOP, 0, <<"b">>, TRUE)}

InitLines ==
    /\ projectconfig = ProjectConfig(FALSE, {})
    /\ \E t \in TextsOver(Chars, MaxFileLen), gone \in {{}, {SRCFILE}} :
           disk = Tree(FALSE, gone, [AllOld EXCEPT ![SRCFILE] = t])
    /\ renders = [out |-> [p \in Paths |-> OldText],
                  assets |-> {ASSETS, APUB, APRIV}, meta |-> {META, MPUB, MPRIV}]
    /\ walk = WalkOf(disk)
    /\ InitUpdater

NextLines ==
    \/ \E c, f \in BOOLEAN : Construct(c, f, FALSE)
    \/ pc = "constructed" /\ EnqueueUpdate(TOP, None)
    \/ \E x \in CorrectionInputs :
           /\ pc = "checking"
           /\ MayCorrect
           /\ AddLineCorrection(x.fname, x.line, x.expected, x.auto)
    \/ pc = "checking" /\ CallGenerateFile(TOP)
    \/ Run

SpecLines == InitLines /\ [][NextLines]_vars

(***************************************************************************)
(* SpecFiles: the whole-file pass.  The top-level Makefile holds any text  *)
(* of a few characters on disk, or is missing, and is rendered as any      *)
(* text; the resources Makefile is up to date or stale; the ledger is      *)
(* empty or holds one correction, of the source file or of the top-level   *)
(* Makefile.                                                               *)
(***************************************************************************)
InitFiles ==
    /\ projectconfig = ProjectConfig(FALSE, {})
    /\ \E t \in TextsOver(Chars, MaxTextLen) \cup {Absent} :
           disk = Tree(FALSE, {}, [AllOld EXCEPT ![TOP] = t])
    /\ \E g \in TextsOver(Chars, MaxTextLen), r \in {OldText, NewText} :
           renders = [out |-> [p \in Paths |-> IF p = TOP THEN g
                                                ELSE IF p = RES THEN r ELSE OldText],
                      assets |-> {ASSETS, APUB, APRIV}, meta |-> {META, MPUB, MPRIV}]
    /\ walk = WalkOf(disk)
    /\ InitUpdater

NextFiles ==
    \/ \E c, f, empty \in BOOLEAN : Construct(c, f, empty)
    \/ \E u \in {<<TOP, None>>, <<TOP, GivenText>>, <<RES, None>>} :
           pc = "constructed" /\ MayEnqueue(u[1]) /\ EnqueueUpdate(u[1], u[2])
    \/ \E auto \in BOOLEAN, f \in {SRCFILE, TOP} :
           /\ pc = "checking"
           /\ line_corrections = <<>>
           /\ AddLineCorrection(f, 0, <<"b">>, auto)
    \/ pc = "checking" /\ CallGenerateFile(TOP)
    \/ Run

SpecFiles == InitFiles /\ [][NextFiles]_vars

(***************************************************************************)
(* SpecRun: the life of one updater.  Its owner and the checks call its    *)
(* public methods wherever they hold it: before run(), from a check, and   *)
(* after run() has returned, run() itself included.                        *)
(***************************************************************************)
RunEnqueueInputs == {<<TOP, None>>, <<TOP, GivenText>>, <<SRCFILE, None>>}

RunLineNumbers == {-1, 0}

RunPaths == {TOP, MPRIV}

InitRun ==
    /\ projectconfig = ProjectConfig(FALSE, {})
    /\ disk = Tree(FALSE, {}, AllOld)
    /\ \E t \in {OldText, NewText} :
           renders = [out |-> [p \in Paths |-> IF p = TOP THEN t ELSE OldText],
                      assets |-> {ASSETS, APUB, APRIV}, meta |-> {META, MPUB, MPRIV}]
    /\ walk = WalkOf(disk)
    /\ InitUpdater

NextRun ==
    \/ \E c, f, empty \in BOOLEAN : Construct(c, f, empty)
    \/ \E u \in RunEnqueueInputs : EnqueueUpdate(u[1], u[2])
    \/ \E n \in RunLineNumbers, auto \in BOOLEAN :
           MayCorrect /\ AddLineCorrection(SRCFILE, n, <<"b">>, auto)
    \/ \E p \in RunPaths : CallGenerateFile(p)
    \/ \E has_config, has_tools \in BOOLEAN :
           CallPrepareToGenerate(has_config, has_tools)
    \/ \E has_config, has_tools \in BOOLEAN : RunAgain(has_config, has_tools)
    \/ Run

SpecRun == InitRun /\ [][NextRun]_vars

(***************************************************************************)
(* SpecCMake: the tool run again.  The CMakeLists.txt holds any few lines  *)
(* among the markers, a source line and another line; the source file is   *)
(* public or internal; when a run that is not a check has returned, a new  *)
(* updater is constructed on the tree as that run left it.                 *)
(***************************************************************************)
MaxRuns == 2        \* runs of the tool on one tree
MaxCMakeLines == 4  \* lines of the CMakeLists.txt

CMakeLineChoices ==
    {<<BEGIN_PUBLIC>>, <<END_PUBLIC>>, <<BEGIN_PRIVATE>>, <<END_PRIVATE>>, SRCLINE,
     <<"project(x)">>}

\* The text of a file with these lines.
TextOfLines(ls) == join(<<LF>>, ls) \o <<LF>>

\* The tool is run again: a new updater, on the tree as it is.
NextProcess ==
    /\ pc = "done"
    /\ ~check
    /\ prior_runs + 1 < MaxRuns
    /\ prior_runs' = prior_runs + 1
    /\ pc' = "new"
    /\ error' = NoError
    /\ check' = FALSE
    /\ fix' = FALSE
    /\ public' = FALSE
    /\ run_file_checks' = TRUE
    /\ config_reads' = 0
    /\ enqueued_updates' = <<>>
    /\ line_corrections' = <<>>
    /\ can_generate_files' = FALSE
    /\ generated_files' = <<>>
    /\ scanned' = FALSE
    /\ source_files' = None
    /\ header_files' = None
    /\ start_updates' = <<>>
    /\ next_update' = 1
    /\ calls' = [p \in Paths |-> 0]
    /\ assigns' = [p \in Paths |-> 0]
    /\ returned' = [p \in Paths |-> {}]
    /\ chain' = [nested |-> 0, deepest |-> 0]
    /\ writes' = <<>>
    /\ unchanged_file_count' = 0
    /\ locked' = FALSE
    /\ phases' = <<>>
    /\ disk0' = disk
    /\ disk1' = disk
    /\ UNCHANGED <<disk, renders, projectconfig, walk>>

\* Walks of a tree with the model's source file: alone, or with a header
\* and an Objective-C++ source that the walk yields after it.
HEADERNAME == <<"/", "a", ".", "h">>
OBJCNAME == <<"/", "a", ".", "m", "m">>
CMakeWalks == {<<SRCNAME>>, <<SRCNAME, HEADERNAME, OBJCNAME>>}

InitCMake ==
    /\ \E b \in BOOLEAN, internal \in {{}, {ConfigName(SRCNAME)}} :
           projectconfig = ProjectConfig(b, internal)
    /\ \E ls \in UNION {[1..n -> CMakeLineChoices] : n \in 0..MaxCMakeLines} :
           disk = Tree(projectconfig.public, {},
                       [AllOld EXCEPT ![CMAKE] = TextOfLines(ls)])
    /\ renders = [out |-> [p \in Paths |-> OldText],
                  assets |-> {ASSETS, APUB, APRIV},
                  meta |-> {META, MPUB, MPRIV}]
    /\ walk \in CMakeWalks
    /\ InitUpdater

\* Every run is the tool's own: the default artifacts, in any mode.
NextCMake ==
    \/ \E c, f \in BOOLEAN : Construct(c, f, FALSE)
    \/ NextProcess
    \/ Run

SpecCMake == InitCMake /\ [][NextCMake]_vars

(***************************************************************************)
(* SpecScan: the scan of the source tree.  The tree holds a few files      *)
(* among sources, headers, generated files and others, and the walk        *)
(* yields them in any order.                                               *)
(***************************************************************************)
MaxTreeFiles == 3   \* files of the scanned tree

GENHEADERNAME == <<"/", "m", "g", "e", "n", "/", "a", ".", "h">>
GENSRCNAME == <<"/", "m", "g", "e", "n", "/", "b", ".", "c", "c">>
NEARGENNAME == <<"/", "x", "m", "g", "e", "n", "/", "a", ".", "h">>
NOEXTNAME == <<"/", "a", "c">>

ScanNames ==
    {SRCNAME, HEADERNAME, OBJCNAME, GENHEADERNAME, GENSRCNAME, NEARGENNAME,
     NOEXTNAME}

\* The walks of the trees of at most MaxTreeFiles files: each file once.
ScanWalks ==
    {w \in UNION {[1..n -> ScanNames] : n \in 0..MaxTreeFiles} :
        \A i, j \in 1..Len(w) : i # j => w[i] # w[j]}

InitScan ==
    /\ projectconfig = ProjectConfig(FALSE, {})
    /\ disk = Tree(FALSE, {}, AllOld)
    /\ renders = [out |-> [p \in Paths |-> OldText],
                  assets |-> {ASSETS, APUB, APRIV},
                  meta |-> {META, MPUB, MPRIV}]
    /\ walk \in ScanWalks
    /\ InitUpdater

NextScan ==
    \/ \E c, f, empty \in BOOLEAN : Construct(c, f, empty)
    \/ \E has_config, has_tools \in BOOLEAN :
           pc = "constructed" /\ CallPrepareToGenerate(has_config, has_tools)

SpecScan == InitScan /\ [][NextScan]_vars

(***************************************************************************)
(* Claims about generation and dispatch (Spec).                            *)
(***************************************************************************)
\* C1: within one run, every generate_file(p) call returns the same text
\* for p, and the renderer invoked for p runs at most once.
C1_GenerateIdempotent ==
    \A p \in Paths : Cardinality(returned[p]) <= 1 /\ calls[p] <= 1

\* C2: every key of the generated-file cache has been assigned exactly once,
\* whichever rules and renderers put paths in the cache.
C2_CacheWriteOnce ==
    \A p \in Paths : IF DictHas(generated_files, p) THEN assigns[p] = 1
                     ELSE assigns[p] = 0

\* C8: an updater constructed with check and fix both set has raised the
\* configuration error, has read no config, enqueued nothing, scanned
\* nothing, generated nothing and written nothing, and stays that way.
C8_ModeExclusive ==
    (check /\ fix) =>
        /\ pc = "failed"
        /\ error = [kind |-> "RuntimeError: fix and check", at |-> "new"]
        /\ config_reads = 0
        /\ enqueued_updates = <<>>
        /\ ~scanned
        /\ ~can_generate_files
        /\ generated_files = <<>>
        /\ writes = <<>>
        /\ disk = disk0

C8_Witness == check /\ fix /\ pc = "failed"

(***************************************************************************)
(* Claims about the line-correction pass (SpecLines).                      *)
(***************************************************************************)
Entries == LedgerEntries(line_corrections)
HasManual == Len(ManualChanges(Entries)) > 0
AllAuto == Len(Entries) > 0 /\ ~HasManual

\* The line-correction pass has run, and raised or returned.
LinePassRan ==
    \/ pc \in {"apply_files", "done"}
    \/ pc = "failed" /\ error.at \in {"apply_lines", "apply_files"}
\* It returned.
LinePassReturned ==
    \/ pc \in {"apply_files", "done"}
    \/ pc = "failed" /\ error.at = "apply_files"

WritesBy(pass) == {i \in 1..Len(writes) : writes[i].by = pass}

\* C3: with a manual-only correction in the ledger the line-correction pass
\* raises the manual-correction error, in check, fix and neither mode, and
\* writes no file, whatever auto-fixable corrections the ledger also holds.
C3_FailClosed ==
    (LinePassRan /\ HasManual) =>
        /\ pc = "failed"
        /\ error = [kind |-> "CleanError: manual", at |-> "apply_lines"]
        /\ writes = <<>>
        /\ disk = disk0

C3_Witness ==
    /\ pc = "failed"
    /\ error.at = "apply_lines"
    /\ fix
    /\ HasManual
    /\ Len(AutoChanges(Entries)) > 0

\* C9: with a ledger of auto-fixable corrections only and a run not in fix
\* mode, the line-correction pass raises and writes no file.
C9_PendingAutoRaises ==
    (LinePassRan /\ AllAuto /\ ~fix) =>
        /\ pc = "failed"
        /\ error.at = "apply_lines"
        /\ error.kind \in {"CleanError: auto-fixable", "FileNotFoundError", "IndexError"}
        /\ writes = <<>>
        /\ disk = disk0

C9_Witness ==
    /\ pc = "failed"
    /\ error = [kind |-> "CleanError: auto-fixable", at |-> "apply_lines"]
    /\ check
    /\ Len(Entries) = 2

\* No later entry of the ledger corrects the same line of the same file.
LastOfItsLine(i) ==
    \A j \in (i + 1)..Len(Entries) :
        \/ Entries[j].fname # Entries[i].fname
        \/ Entries[j].change.line_number # Entries[i].change.line_number

Targeted(f, n) ==
    \E j \in 1..Len(Entries) :
        Entries[j].fname = f /\ Entries[j].change.line_number = n

EndsWithNewline(t) == Len(t) > 0 /\ t[Len(t)] = LF

\* The file of entry i after the pass: the expected text stands at the line
\* the entry names (of the last entry, where several name one line), every
\* line no entry names is as it was, and the file ends with a newline.
Corrected(i) ==
    LET f == Entries[i].fname
        n == Entries[i].change.line_number
        old == FileLines(disk0, f)
        new == FileLines(disk1, f)
    IN /\ LastOfItsLine(i) =>
              n < Len(new) /\ new[n + 1] = Entries[i].change.expected
       /\ Len(new) = Len(old)
       /\ \A k \in 1..Len(old) : ~Targeted(f, k - 1) => new[k] = old[k]
       /\ EndsWithNewline(disk1[f])

HasLineBreak(t) == \E k \in 1..Len(t) : t[k] \in LineBoundaries

\* C4 as stated: in fix mode with auto-fixable corrections only, after the
\* pass every corrected file has the expected text at the targeted line,
\* its other lines unchanged, and ends with a newline.
C4_AsStated ==
    (LinePassReturned /\ fix /\ AllAuto) =>
        \A i \in 1..Len(Entries) : Corrected(i)

\* C4 as amended: the same, for a ledger none of whose expected texts holds
\* a line break.
C4_FixCorrectsLines ==
    (/\ LinePassReturned
     /\ fix
     /\ AllAuto
     /\ \A i \in 1..Len(Entries) : ~HasLineBreak(Entries[i].change.expected)) =>
        \A i \in 1..Len(Entries) : Corrected(i)

C4_Witness ==
    /\ pc = "done"
    /\ fix
    /\ Len(Entries) = 2
    /\ \A i \in 1..2 : /\ Entries[i].fname = SRCFILE
                       /\ Entries[i].change.can_auto_update
                       /\ Entries[i].change.expected = <<"b">>
    /\ Entries[1].change.line_number # Entries[2].change.line_number
    /\ disk0[SRCFILE] = <<"a", LF, "a">>
    /\ disk[SRCFILE] = <<"b", LF, "b", LF>>

(***************************************************************************)
(* Claims about the whole-file pass (SpecFiles).                           *)
(***************************************************************************)
Artifacts == DictKeys(generated_files)
ArtifactText(p) == DictGet(generated_files, p)

\* The artifact differs from the file the pass found: the file is absent,
\* or its text as read is not the generated text with CRLF made LF.
Differs(p) ==
    \/ disk1[p] = Absent
    \/ ReadText(disk1[p]) # ReplaceCRLF(ArtifactText(p))

FilePassRan == pc = "done" \/ (pc = "failed" /\ error.at = "apply_files")
RunEnded == pc = "done" \/ (pc = "failed" /\ error.at \in {"apply_lines", "apply_files"})

WrittenByFilePass(p) == \E i \in WritesBy("files") : writes[i].path = p

\* C5: in check mode no file but the diagnostic dump is ever written or
\* changed, and a run whose file pass meets an artifact that differs from
\* disk raises, the dump holding that artifact with CRLF made LF.
C5_CheckNeverMutates ==
    check =>
        /\ \A f \in Files \ {ERRFILE} : disk[f] = disk0[f]
        /\ \A i \in 1..Len(writes) : writes[i].path = ERRFILE
        /\ (FilePassRan /\ \E p \in Artifacts : Differs(p)) =>
              /\ pc = "failed"
              /\ error.kind = "CleanError: out-of-date"
              /\ Len(writes) = 1
              /\ \E p \in Artifacts :
                    /\ Differs(p)
                    /\ disk[ERRFILE] = ReplaceCRLF(ArtifactText(p))

C5_Witness ==
    /\ check
    /\ pc = "failed"
    /\ error.kind = "CleanError: out-of-date"
    /\ disk[ERRFILE] # Absent
    /\ DictHas(generated_files, TOP)
    /\ disk0[TOP] # Absent
    /\ Differs(TOP)

\* C6 as stated: in a run with neither check nor fix, every artifact that
\* differs from disk is written and no line correction is, whatever the
\* ledger holds.
C6_AsStated ==
    (~check /\ ~fix /\ RunEnded) =>
        /\ WritesBy("lines") = {}
        /\ \A p \in Artifacts :
              (disk0[p] = Absent \/ ReadText(disk0[p]) # ReplaceCRLF(ArtifactText(p)))
                  => disk[p] = ArtifactText(p)

\* C6 as amended: in a run with neither check nor fix no line correction is
\* written; with an empty ledger every artifact that differs from disk is
\* written, and with any entry in the ledger the line-correction pass
\* raises and nothing at all is written.
C6_NeitherMode ==
    (~check /\ ~fix /\ RunEnded) =>
        /\ WritesBy("lines") = {}
        /\ IF Len(Entries) = 0
           THEN /\ pc = "done"
                /\ \A p \in Artifacts : Differs(p) => disk[p] = ArtifactText(p)
           ELSE /\ pc = "failed"
                /\ error.at = "apply_lines"
                /\ writes = <<>>
                /\ disk = disk0

C6_Witness ==
    /\ ~check
    /\ ~fix
    /\ pc = "failed"
    /\ error = [kind |-> "CleanError: auto-fixable", at |-> "apply_lines"]
    /\ AllAuto
    /\ \E p \in Artifacts : ReadText(disk[p]) # ReplaceCRLF(ArtifactText(p))

\* C7: in every mode an artifact whose generated text, CRLF made LF, is the
\* text read from its file is not written by the whole-file pass and is
\* counted as unchanged; an artifact whose file is absent is a mismatch: it
\* is not counted, and the pass writes it or, in check mode, raises.
C7_NoOpOnMatch ==
    FilePassRan =>
        /\ \A p \in Artifacts :
              ~Differs(p) => ~WrittenByFilePass(p) /\ disk[p] = disk1[p]
        /\ pc = "done" =>
              unchanged_file_count = Cardinality({p \in Artifacts : ~Differs(p)})
        /\ \A p \in Artifacts :
              disk1[p] = Absent =>
                  IF check THEN pc = "failed"
                  ELSE WrittenByFilePass(p) /\ disk[p] = ArtifactText(p)

C7_Witness ==
    /\ pc = "done"
    /\ check
    /\ DictHas(generated_files, TOP)
    /\ ArtifactText(TOP) = <<CR, LF>>
    /\ disk[TOP] = <<LF>>
    /\ unchanged_file_count = Len(generated_files)

\* C10: when the whole-file pass runs in a mode other than check, every
\* artifact that differs from disk, or whose file is absent, is written to
\* its own path exactly as generated, CRLF line endings included.
C10_WritesAsGenerated ==
    (~check /\ FilePassRan) =>
        /\ pc = "done"
        /\ \A p \in Artifacts :
              Differs(p) =>
                  /\ disk[p] = ArtifactText(p)
                  /\ \E i \in WritesBy("files") :
                        writes[i].path = p /\ writes[i].data = ArtifactText(p)

C10_Witness ==
    /\ ~check
    /\ pc = "done"
    /\ DictHas(generated_files, TOP)
    /\ ArtifactText(TOP) = <<CR, LF>>
    /\ disk1[TOP] = <<"a">>
    /\ disk[TOP] = <<CR, LF>>

(***************************************************************************)
(* Claims about the life of an updater (SpecRun).                          *)
(***************************************************************************)
InPhase(name) == \E i \in 1..Len(phases) : phases[i] = name

InApply ==
    \/ pc \in {"apply_lines", "apply_files"}
    \/ pc = "failed" /\ error.at \in {"apply_lines", "apply_files"}

\* C11: while a run is in its apply passes the enqueued updates are those
\* of the snapshot taken before generation; a run whose checks left them
\* different (an update added or given other data) fails at the lock, and
\* has written nothing.
C11_SnapshotUnchanged ==
    /\ InApply =>
          /\ DictKeys(enqueued_updates) = DictKeys(start_updates)
          /\ \A k \in DictKeys(start_updates) :
                DictGet(enqueued_updates, k) = DictGet(start_updates, k)
    /\ (pc = "failed" /\ error.at = "locking") =>
          /\ error.kind = "AssertionError"
          /\ \E k \in DictKeys(enqueued_updates) :
                \/ k \notin DictKeys(start_updates)
                \/ DictGet(enqueued_updates, k) # DictGet(start_updates, k)
          /\ ~InPhase("lines")
          /\ ~InPhase("files")
          /\ disk = disk0

C11_Witness ==
    /\ pc = "failed"
    /\ error = [kind |-> "AssertionError", at |-> "locking"]
    /\ InPhase("checks")
    /\ DictHas(enqueued_updates, SRCFILE)
    /\ ~DictHas(start_updates, SRCFILE)
    /\ writes = <<>>

\* C13: once run() has passed its lock point on an updater, no further
\* call of run() or prepare_to_generate() on it takes effect: generation
\* stays disabled and no run is under way again.
C13_NoReentry ==
    locked =>
        /\ ~can_generate_files
        /\ pc \notin {"prepared", "generating", "checking", "locking"}

\* C12: a generate_file call made before prepare_to_generate() has
\* succeeded, or after run() has passed its lock point, raises and leaves
\* the cache as it was.
C12_GenerateWindow ==
    [][\A p \in RunPaths :
          (CallGenerateFile(p) /\ (~scanned \/ locked)) =>
              /\ pc' = "failed"
              /\ error'.kind = "RuntimeError: cannot generate"
              /\ generated_files' = generated_files]_vars

\* The phases of a run, in the order of run()'s statements.
PhaseOrder ==
    <<"scan", "generate">> \o (IF run_file_checks THEN <<"checks">> ELSE <<>>)
        \o <<"lock", "lines", "files", "done">>

IsPrefix(s, t) == Len(s) <= Len(t) /\ \A i \in 1..Len(s) : s[i] = t[i]

\* C16: the phases a run has entered are an initial part of scan,
\* generate, checks (when enabled), lock, line corrections, whole-file
\* writes, done, each entered once; a run that returned has entered them
\* all; and no step outside the two apply passes changes a file.
C16_PhaseOrder ==
    /\ [](/\ IsPrefix(phases, PhaseOrder)
          /\ pc = "done" => phases = PhaseOrder
          /\ pc \in {"generating", "checking", "locking"} => disk = disk0)
    /\ [][(disk' # disk \/ writes' # writes) =>
              pc \in {"apply_lines", "apply_files"}]_vars

C16_Witness ==
    /\ pc = "done"
    /\ run_file_checks
    /\ phases = <<"scan", "generate", "checks", "lock", "lines", "files", "done">>
    /\ Len(writes) > 0

\* A run that reached its apply phase has ended.
ApplyEnded ==
    \/ pc = "done"
    \/ pc = "failed" /\ error.at \in {"apply_lines", "apply_files"}

\* C17 as stated: a run that reached the apply phase has attempted both
\* passes, the line corrections first.
C17_AsStated ==
    ApplyEnded =>
        \E i \in 1..Len(phases) - 1 : phases[i] = "lines" /\ phases[i + 1] = "files"

\* C17 as amended: a run that reached the apply phase has attempted the
\* line corrections; it has attempted the whole-file writes, next after
\* them, exactly when the line-correction pass did not raise.
C17_ApplyOrder ==
    /\ ApplyEnded => InPhase("lines")
    /\ InPhase("files") =>
          \E i \in 1..Len(phases) - 1 : phases[i] = "lines" /\ phases[i + 1] = "files"
    /\ ApplyEnded =>
          (InPhase("files") <=> ~(pc = "failed" /\ error.at = "apply_lines"))

C17_Witness ==
    /\ pc = "failed"
    /\ error = [kind |-> "CleanError: auto-fixable", at |-> "apply_lines"]
    /\ InPhase("lines")
    /\ ~InPhase("files")
    /\ \E p \in DictKeys(generated_files) :
          ReadText(disk[p]) # ReplaceCRLF(DictGet(generated_files, p))

\* C18: add_line_correction with a negative line number raises at once
\* and leaves the ledger as it was; so no entry of the ledger ever has a
\* negative line number.
C18_NoNegativeLine ==
    /\ [](\A i \in 1..Len(Entries) : Entries[i].change.line_number >= 0)
    /\ [][\A n \in RunLineNumbers, auto \in BOOLEAN :
             (n < 0 /\ AddLineCorrection(SRCFILE, n, <<"b">>, auto)) =>
                 /\ pc' = "failed"
                 /\ error' = [kind |-> "AssertionError", at |-> pc]
                 /\ line_corrections' = line_corrections]_vars

C18_Witness ==
    /\ pc = "failed"
    /\ error = [kind |-> "AssertionError", at |-> "checking"]
    /\ Len(Entries) = 1
    /\ Entries[1].change.line_number = 0

\* C19: when the project root lacks its config or its tools directory, a
\* run (or a prepare_to_generate call) on the constructed updater fails
\* before the scan: the source and header files stay unset, generation
\* stays disabled, nothing is generated and nothing is written.
C19_InvalidRoot ==
    (/\ pc = "failed"
     /\ error = [kind |-> "RuntimeError: projroot is not valid", at |-> "constructed"]) =>
        /\ ~scanned
        /\ ~can_generate_files
        /\ phases = <<>>
        /\ generated_files = <<>>
        /\ \A p \in Paths : calls[p] = 0
        /\ writes = <<>>
        /\ disk = disk0

C19_Witness ==
    /\ pc = "failed"
    /\ error = [kind |-> "RuntimeError: projroot is not valid", at |-> "constructed"]
    /\ Len(enqueued_updates) > 0
    /\ \E p \in DictKeys(enqueued_updates) : disk[p] # Absent

(***************************************************************************)
(* Claims about the dispatch and its input (Spec).                         *)
(***************************************************************************)
\* The run's loop has called generate_file on the update it stands at, and
\* the call raised.
FailedGenerating(path) ==
    /\ pc = "failed"
    /\ error.at = "generating"
    /\ next_update <= Len(enqueued_updates)
    /\ enqueued_updates[next_update].key = path

\* The run's loop has called generate_file on the path, and it returned.
PassedGenerating(path) ==
    /\ \/ pc \in {"generating", "checking", "locking", "apply_lines", "apply_files", "done"}
       \/ pc = "failed" /\ error.at \notin {"new", "constructed", "prepared"}
    /\ \E i \in 1..Len(enqueued_updates) :
          i < next_update /\ enqueued_updates[i].key = path

\* C14: generate_file on a path that no rule of the dispatch matches raises
\* the no-known-formula error and caches nothing for it, with or without
\* enqueued data and with or without a file on disk.
C14_UnknownArtifact ==
    /\ ~DictHas(generated_files, UNKNOWN)
    /\ ~PassedGenerating(UNKNOWN)
    /\ FailedGenerating(UNKNOWN) => error.kind = "RuntimeError: no known formula"

\* The rules that generate their path as a side effect of a Makefile and
\* make no use of the path's existing content.
SideEffectPaths == {APUB, MPUB, MPRIV} \cup (IF public THEN {} ELSE {APRIV})

\* C15: on a cache miss the renderer is handed the enqueued data of the
\* path when there is any, an empty text included, and the file's text
\* otherwise (seen in what the passthrough rule caches); and a side-effect rule generates its path although the
\* path's file is missing, not-found being raised only where the rule
\* needs the existing content.
C15_ExistingContent ==
    /\ (public /\ calls[APRIV] = 1 /\ assigns[APRIV] = 1) =>
          DictGet(generated_files, APRIV) =
              IF /\ DictHas(enqueued_updates, APRIV)
                 /\ DictGet(enqueued_updates, APRIV) # None
              THEN DictGet(enqueued_updates, APRIV)
              ELSE ReadText(disk0[APRIV])
    /\ \A p \in SideEffectPaths :
          (/\ FailedGenerating(p)
           /\ disk0[p] = Absent
           /\ \A f \in Files \ {p, ERRFILE, XCODE} : disk0[f] # Absent)
              => error.kind # "FileNotFoundError"

(***************************************************************************)
(* Claims about the tool run again (SpecCMake).                            *)
(***************************************************************************)
\* C20: after a run that is not a check has written its artifacts, a run
\* of a new updater on the tree it left generates for every artifact the
\* text that is on disk, and writes no file: the whole-file pass counts
\* every artifact as unchanged, in check mode too.
C20_SecondRunWritesNothing ==
    prior_runs >= 1 =>
        /\ writes = <<>>
        /\ disk = disk0
        /\ ~(pc = "failed" /\ error.at = "apply_files")
        /\ pc = "done" => unchanged_file_count = Len(generated_files)

(***************************************************************************)
(* Claims about the CMake renderer (SpecCMake).                            *)
(***************************************************************************)
\* The CMake renderer has rendered the file in this run: the lines it read
\* and the lines it rendered.
CMakeRendered == calls[CMAKE] = 1 /\ DictHas(generated_files, CMAKE)
CMakeIn == splitlines(ReadText(disk0[CMAKE]))
CMakeOut == splitlines(DictGet(generated_files, CMAKE))

\* The inventory files of a section, as a set, and one line for each in
\* sorted order.
InventoryOf(section) ==
    {f \in {SourceFiles[i] : i \in 1..Len(SourceFiles)} :
        IsPublicSourceFile(f) = (section = "PUBLIC")}
OneLinePerFile(files) ==
    LET fs == CHOOSE seq \in [1..Cardinality(files) -> files] :
                  \A i, j \in 1..Cardinality(files) :
                      i < j => Less(seq[i], seq[j])
    IN [i \in 1..Len(fs) |-> CMakeLine(fs[i])]

\* The lines with those strictly between the section's markers replaced.
ReplacedBetween(lines, section, ours) ==
    LET begin == Index(lines, SectionBegin(section))
        end == Index(lines, SectionEnd(section))
        rest == IF end > begin THEN end ELSE begin + 1
    IN SubSeq(lines, 1, begin) \o ours \o SubSeq(lines, rest, Len(lines))

CMakeInventoryOf(section) ==
    {f \in InventoryOf(section) :
        /\ ~EndsWith(f, <<".", "m">>)
        /\ ~EndsWith(f, <<".", "m", "m">>)
        /\ ~EndsWith(f, <<".", "s", "w", "i", "f", "t">>)}

\* The lines up to the section's begin marker, the new lines, and the lines
\* from the section's end marker on, line by line.
KeptAround(lines, section, ours) ==
    LET begin == Index(lines, SectionBegin(section))
        end == Index(lines, SectionEnd(section))
        n == Len(ours)
    IN [i \in 1..(begin + n + Len(lines) - end + 1) |->
           IF i <= begin THEN lines[i]
           ELSE IF i <= begin + n THEN ours[i - begin]
           ELSE lines[i - begin - n + end - 1]]

MultiOutputOf(b) == IF b \in {APUB, APRIV} THEN ASSETS ELSE META
Emitted(b) == IF b \in {APUB, APRIV} THEN renders.assets ELSE renders.meta
Populated(b) == calls[MultiOutputOf(b)] >= 1 /\ b \in Emitted(b)

\* C22: once the renderer of the assets or meta Makefile has put a
\* side-effect path in the cache, a generate_file of that path returns the
\* text the renderer gave for it, invokes no renderer and assigns no cache
\* entry.
C22_SideEffectHit ==
    [][\A b \in CheckPaths \ {ASSETS} :
          (Populated(b) /\ CallGenerateFile(b)) =>
              /\ returned'[b] = returned[b] \cup {renders.out[b]}
              /\ calls' = calls
              /\ assigns' = assigns
              /\ generated_files' = generated_files
              /\ pc' = pc]_vars

\* The run has rendered the assets Makefile of a private repository from
\* the default updates; a check has asked for the private asset manifest,
\* which was never enqueued and which no renderer was invoked for.
C22_Witness ==
    /\ pc = "checking"
    /\ ~public
    /\ ~DictHas(enqueued_updates, APRIV)
    /\ calls[ASSETS] = 1
    /\ calls[APRIV] = 0
    /\ APRIV \in renders.assets
    /\ returned[APRIV] = {renders.out[APRIV]}

\* The longest chain of requests in the dispatch table: a public asset
\* manifest, the assets Makefile, a meta manifest, the meta Makefile.
LongestChain == Len(<<APUB, ASSETS, MPUB, META>>)

\* C23: no generate_file call ends in Python's RecursionError: no chain of
\* requests comes back to a path whose generation has not returned.  The
\* chain of one call from outside is never deeper than the longest chain of
\* the dispatch table, and the call makes at most as many generate_file
\* calls as there are paths.
C23_Terminates ==
    /\ error.kind # "RecursionError"
    /\ chain.deepest <= LongestChain
    /\ chain.nested <= Cardinality(Paths)

\* A private repository: a public asset manifest was asked for with an
\* empty cache, which took the longest chain, and the filters were
\* generated from the project.
C23_Witness ==
    /\ chain.deepest = LongestChain
    /\ pc # "failed"
    /\ Len(enqueued_updates) >= 1
    /\ enqueued_updates[1].key = APUB
    /\ DictHas(generated_files, APUB)
    /\ DictHas(generated_files, VCXF)
    /\ DictHas(generated_files, VCX)

\* C29: the filters of a Visual Studio project are never in the cache
\* without the project, and the renderer of the project has run once when
\* either is in the cache, never twice, whichever of the two was enqueued
\* first.
C29_FiltersThroughCache ==
    /\ calls[VCX] <= 1
    /\ DictHas(generated_files, VCXF) =>
           /\ DictHas(generated_files, VCX)
           /\ calls[VCX] = 1
           /\ calls[VCXF] = 1
           /\ DictGet(generated_files, VCXF)
                  = VSFiltersText(DictGet(generated_files, VCX))

\* The default updates, the filters before the project: the run has
\* generated both, the project's renderer has run once.
C29_Witness ==
    /\ pc = "checking"
    /\ \E i, j \in 1..Len(enqueued_updates) :
           /\ i < j
           /\ j < next_update
           /\ enqueued_updates[i].key = VCXF
           /\ enqueued_updates[j].key = VCX
    /\ returned[VCXF] # {}
    /\ returned[VCX] # {}
    /\ calls[VCX] = 1

(***************************************************************************)
(* Claims about the scan of the source tree (SpecScan).                    *)
(***************************************************************************)
Items(seq) == {seq[i] : i \in 1..Len(seq)}
HasExt(f, exts) == \E e \in exts : EndsWith(f, e)

\* C24: after the scan, a file of the tree is among the source files
\* exactly when its name ends with a source extension and its path does
\* not hold the generated-code segment, among the header files exactly
\* when its name ends with the header extension and its path does not hold
\* the segment; both hold files of the tree only, none with the segment,
\* and no file is in both.
C24_ScanSets ==
    scanned =>
        /\ \A f \in Items(walk) :
              /\ f \in Items(source_files)
                     <=> (HasExt(f, SourceExts) /\ ~Contains(f, MGEN))
              /\ f \in Items(header_files)
                     <=> (HasExt(f, HeaderExts) /\ ~Contains(f, MGEN))
        /\ Items(source_files) \cup Items(header_files) \subseteq Items(walk)
        /\ \A f \in Items(source_files) \cup Items(header_files) :
              ~Contains(f, MGEN)
        /\ Items(source_files) \cap Items(header_files) = {}

\* A generated source, a header in a directory whose name ends like the
\* segment, and a source: the first is in neither set.
C24_Witness ==
    /\ scanned
    /\ walk = <<GENSRCNAME, NEARGENNAME, SRCNAME>>
    /\ source_files = <<SRCNAME>>
    /\ header_files = <<NEARGENNAME>>

\* The walk in another order.
Reordered(w) ==
    {[i \in 1..Len(w) |-> w[p[i]]] : p \in Permutations(1..Len(w))}

\* C25: the source and header files after the scan are those the scan
\* yields for every other order in which the walk could have given the
\* files of the tree.
C25_ScanDeterministic ==
    scanned =>
        \A w \in Reordered(walk) :
            FindSourcesAndHeaders(w)
                = [source_files |-> source_files, header_files |-> header_files]

\* The walk gave the source before the Objective-C++ source, which sorts
\* before it.
C25_Witness ==
    /\ scanned
    /\ walk = <<SRCNAME, OBJCNAME, NEARGENNAME>>
    /\ source_files = <<OBJCNAME, SRCNAME>>
    /\ header_files = <<NEARGENNAME>>

(***************************************************************************)
(* Claims about the tree a run leaves (SpecFiles).                         *)
(***************************************************************************)
\* The line-correction pass of this run has rewritten the file.
WrittenByLinePass(p) == \E i \in WritesBy("lines") : writes[i].path = p

\* C26: when a run that is not a check has returned, every artifact of the
\* cache has a file, and the file's text read with its line endings made
\* LF is the generated text read so: the file is the generated text as it
\* is where the whole-file pass wrote it, and reads as the generated text
\* with CRLF made LF where the pass left it.  So it is in fix mode for an
\* artifact the line-correction pass has rewritten before.
C26_DiskIsGenerated ==
    (pc = "done" /\ ~check) =>
        \A p \in Artifacts :
            /\ disk[p] # Absent
            /\ ReadText(disk[p]) = ReadText(ArtifactText(p))
            /\ IF WrittenByFilePass(p)
               THEN disk[p] = ArtifactText(p)
               ELSE ReadText(disk[p]) = ReplaceCRLF(ArtifactText(p))

\* A fix run: the line-correction pass has made the first line of the
\* top-level Makefile the expected text, then the whole-file pass has
\* written the generated text over it.
C26_Witness ==
    /\ pc = "done"
    /\ fix
    /\ DictHas(generated_files, TOP)
    /\ WrittenByLinePass(TOP)
    /\ disk1[TOP] = <<"b", LF>>
    /\ ArtifactText(TOP) = <<CR, LF>>
    /\ disk[TOP] = <<CR, LF>>

\* C27: a check run that has returned had an empty ledger, and every
\* artifact of the cache has a file whose text as read is the generated
\* text with CRLF made LF; the run has written no file, the diagnostic
\* dump included, and the tree is as it found it.
C27_CheckPasses ==
    (check /\ pc = "done") =>
        /\ Entries = <<>>
        /\ \A p \in Artifacts :
              /\ disk[p] # Absent
              /\ ReadText(disk[p]) = ReplaceCRLF(ArtifactText(p))
        /\ writes = <<>>
        /\ disk = disk0
        /\ disk[ERRFILE] = Absent

\* A check run over the default artifacts and an up-to-date top-level
\* Makefile has returned.
C27_Witness ==
    /\ check
    /\ pc = "done"
    /\ Len(generated_files) > 2
    /\ DictHas(generated_files, TOP)
    /\ ArtifactText(TOP) = <<"a", LF>>
    /\ disk[TOP] = <<"a", LF>>
    /\ InPhase("checks")

(***************************************************************************)
(* Claims about what generate_file returns (Spec).                         *)
(***************************************************************************)
\* The paths whose rule asks for a Makefile and renders nothing itself.
Delegating == {APUB, MPUB, MPRIV} \cup (IF public THEN {} ELSE {APRIV})

\* What a generate_file(p) call leaves, when this step is one.
ReturnsCacheEntry(p) ==
    /\ pc' # "failed" =>
          /\ DictHas(generated_files', p)
          /\ returned'[p] = returned[p] \cup {DictGet(generated_files', p)}
    /\ (/\ p \in Delegating
        /\ ~DictHas(generated_files, p)
        /\ p \notin Emitted(p)) =>
          /\ pc' = "failed"
          /\ returned'[p] = returned[p]
          /\ ~DictHas(generated_files', p)

\* C28: a generate_file call that returns, made by the owner, by a check
\* or by the loop of run(), leaves its path in the cache and has returned
\* the cache entry of the path; a call for a path that is not in the
\* cache, whose rule asks for a Makefile whose renderer does not give the
\* path, raises: it returns nothing and the path stays out of the cache.
C28_ReturnsCacheEntry ==
    [][/\ \A p \in CheckPaths : CallGenerateFile(p) => ReturnsCacheEntry(p)
       /\ GenerateNext => ReturnsCacheEntry(enqueued_updates[next_update].key)]_vars

\* The owner has asked for the private meta manifest after
\* prepare_to_generate(); the renderer of the meta Makefile does not give
\* it: the Makefile is in the cache, the manifest is not, and the call has
\* raised.
C28_Witness ==
    /\ pc = "failed"
    /\ error = [kind |-> "AssertionError", at |-> "prepared"]
    /\ MPRIV \notin renders.meta
    /\ calls[META] = 1
    /\ DictHas(generated_files, META)
    /\ ~DictHas(generated_files, MPRIV)
    /\ returned[MPRIV] = {}

(***************************************************************************)
(* Claims about several corrections of one file (SpecLines).               *)
(***************************************************************************)
\* The text of the entry's file when the pass came to entry i: as the last
\* entry before it of the same file left it, or as the run found it.
TextBefore(i) ==
    LET earlier == {j \in 1..(i - 1) : Entries[j].fname = Entries[i].fname}
    IN IF earlier = {} THEN disk0[Entries[i].fname]
       ELSE writes[CHOOSE j \in earlier : \A k \in earlier : k <= j].data

\* The last entry of the ledger for the file and line of entry i.
LastFor(i) ==
    CHOOSE j \in 1..Len(Entries) :
        /\ Entries[j].fname = Entries[i].fname
        /\ Entries[j].change.line_number = Entries[i].change.line_number
        /\ \A k \in (j + 1)..Len(Entries) :
              \/ Entries[k].fname # Entries[i].fname
              \/ Entries[k].change.line_number # Entries[i].change.line_number

\* C30: in fix mode, with auto-fixable corrections whose expected texts
\* hold no line break, the pass rewrites the file of each entry once, in
\* the order of the ledger; each rewrite has the lines of the file as the
\* entry before it left it, as many as before, with the expected text at
\* the entry's line and every other line as it was; and after the pass the
\* line of each entry holds the expected text of the last entry for that
\* line.
C30_EachOnThePrevious ==
    (/\ LinePassReturned
     /\ fix
     /\ AllAuto
     /\ \A i \in 1..Len(Entries) : ~HasLineBreak(Entries[i].change.expected)) =>
        /\ Cardinality(WritesBy("lines")) = Len(Entries)
        /\ \A i \in 1..Len(Entries) :
              LET n == Entries[i].change.line_number
                  before == splitlines(ReadText(TextBefore(i)))
                  after == splitlines(ReadText(writes[i].data))
                  final == FileLines(disk1, Entries[i].fname)
              IN /\ writes[i].by = "lines"
                 /\ writes[i].path = Entries[i].fname
                 /\ Len(after) = Len(before)
                 /\ after[n + 1] = Entries[i].change.expected
                 /\ \A k \in 1..Len(before) : k # n + 1 => after[k] = before[k]
                 /\ Len(final) = Len(FileLines(disk0, Entries[i].fname))
                 /\ final[n + 1] = Entries[LastFor(i)].change.expected

\* Two corrections of the first line of a file of two lines, and two of
\* its two lines: the later text stands at the first line, and both texts
\* stand at their lines.
C30_Witness ==
    /\ pc = "done"
    /\ fix
    /\ Len(Entries) = 2
    /\ \A i \in 1..2 : Entries[i].fname = SRCFILE /\ Entries[i].change.can_auto_update
    /\ Entries[1].change.expected = <<"b">>
    /\ Entries[2].change.expected = <<"c">>
    /\ disk0[SRCFILE] = <<"a", LF, "a">>
    /\ \/ /\ Entries[1].change.line_number = 0
          /\ Entries[2].change.line_number = 0
          /\ disk[SRCFILE] = <<"c", LF, "a", LF>>
       \/ /\ Entries[1].change.line_number = 1
          /\ Entries[2].change.line_number = 0
          /\ disk[SRCFILE] = <<"c", LF, "b", LF>>

(***************************************************************************)
(* Claims about a correction past the end of its file (SpecLines).         *)
(***************************************************************************)
\* The entries the fix-mode pass has made: one rewrite each.
Made == Cardinality(WritesBy("lines"))

\* Entry i names a line of its file as the pass came to it.
InRange(i) ==
    Entries[i].change.line_number < Len(splitlines(ReadText(TextBefore(i))))

\* The file as the entries made have left it: the text of the last rewrite
\* of it, or the text the run found.
LeftByMade(f) ==
    LET made == {j \in 1..Made : writes[j].path = f}
    IN IF made = {} THEN disk0[f]
       ELSE writes[CHOOSE j \in made : \A k \in made : k <= j].data

\* C31: in fix mode, with auto-fixable corrections of files that exist,
\* the pass makes the entries in order up to the first that names a line
\* past the end of its file as it then is.  At that entry it raises
\* IndexError without a write: every file is as the entries before left
\* it, the files they rewrote stay rewritten, and the whole-file pass does
\* not run.  With no such entry the pass makes them all and returns.
C31_NotAtomic ==
    (/\ LinePassRan
     /\ fix
     /\ AllAuto
     /\ \A i \in 1..Len(Entries) : disk0[Entries[i].fname] # Absent) =>
        /\ \A i \in 1..Made :
              /\ i <= Len(Entries)
              /\ writes[i].by = "lines"
              /\ writes[i].path = Entries[i].fname
              /\ InRange(i)
        /\ IF Made < Len(Entries)
           THEN /\ ~InRange(Made + 1)
                /\ pc = "failed"
                /\ error = [kind |-> "IndexError", at |-> "apply_lines"]
                /\ ~InPhase("files")
                /\ Len(writes) = Made
                /\ \A f \in Files : disk[f] = LeftByMade(f)
           ELSE LinePassReturned

\* The first entry has rewritten the top-level Makefile; the second names
\* the second line of a source file of one line: the pass has raised, the
\* source file is as it was and the Makefile stays rewritten.
C31_Witness ==
    /\ pc = "failed"
    /\ error = [kind |-> "IndexError", at |-> "apply_lines"]
    /\ fix
    /\ Len(Entries) = 2
    /\ Entries[1].fname = TOP
    /\ Entries[2].fname = SRCFILE
    /\ Entries[2].change.line_number = 1
    /\ disk0[SRCFILE] = <<"a">>
    /\ disk[SRCFILE] = <<"a">>
    /\ disk0[TOP] = <<"a", LF>>
    /\ disk[TOP] = <<"b", LF>>
    /\ Len(writes) = 1

(***************************************************************************)
(* Claims about the private asset manifest (Spec).                         *)
(***************************************************************************)
\* What a generate_file call for the private asset manifest leaves when
\* the manifest is not in the cache, so that the call goes to the dispatch
\* table.  In a public repository, with content to pass through: the call
\* returns that content and caches it, and the assets renderer is not
\* invoked.  In a private repository whose renderers give their manifests:
\* the call returns, the assets Makefile is in the cache, rendered now if
\* it was not there, and the value returned is the manifest the assets
\* renderer gave.
DispatchedByKind ==
    IF public
    THEN ExistingData(APRIV) # None =>
             /\ pc' # "failed"
             /\ returned'[APRIV] = returned[APRIV] \cup {ExistingData(APRIV)}
             /\ DictGet(generated_files', APRIV) = ExistingData(APRIV)
             /\ calls'[APRIV] = calls[APRIV] + 1
             /\ calls'[ASSETS] = calls[ASSETS]
    ELSE (APRIV \in renders.assets /\ MPRIV \in renders.meta) =>
             /\ pc' # "failed"
             /\ DictHas(generated_files', ASSETS)
             /\ ~DictHas(generated_files, ASSETS) => calls'[ASSETS] = calls[ASSETS] + 1
             /\ calls'[APRIV] = calls[APRIV]
             /\ returned'[APRIV] = returned[APRIV] \cup {renders.out[APRIV]}

\* C32: every generate_file call for the private asset manifest that goes
\* to the dispatch table, made by the owner, by a check or by the loop of
\* run(), passes the existing content through in a public repository and
\* generates the assets Makefile and returns its manifest in a private one.
C32_DispatchByKind ==
    [][~DictHas(generated_files, APRIV) =>
          /\ CallGenerateFile(APRIV) => DispatchedByKind
          /\ (GenerateNext /\ enqueued_updates[next_update].key = APRIV)
                => DispatchedByKind]_vars

====
